---- MODULE Spec2Model ----
(***************************************************************************)
(* Strategy modules and pipelines of the Modular-RAG nodes package:        *)
(* PreRetrievalModule / PostRetrievalModule / RetrievalModule (one active  *)
(* operator chosen by name), GenerationModule (a prompt operator and a     *)
(* generator operator), and the Pre/PostRetrievalPipeline step lists.      *)
(*                                                                         *)
(* Python objects whose identity matters are modelled explicitly: config   *)
(* dicts live in the heap `dicts` (a module and its operator alias the     *)
(* same dict), operator objects carry the allocation number `id`.          *)
(***************************************************************************)
EXTENDS Integers, Sequences, FiniteSets, TLC

VARIABLES
    dicts,      \* heap of dict objects: dicts[i] is the mapping held by dict i
    nextOp,     \* allocation number the next constructed operator gets
    mod,        \* the stand-alone Pre/Post/Retrieval module the caller holds (NoMod before construction)
    gen,        \* the GenerationModule the caller holds (NoGen before construction)
    pipe,       \* the pipeline the caller holds: [family, steps]
    added,      \* history: strategy names of the add_step calls that returned since the last clear
    last,        \* what the caller observed of the last call (arguments, pre-state, outcome)
    threads,    \* the process call and the change_strategy call running concurrently on mod
    hier        \* the HierarchicalIndexStrategy the caller holds, and what it was last asked

vars == <<dicts, nextOp, mod, gen, pipe, added, last, threads, hier>>

----------------------------------------------------------------------------
(* Bounds of the model *)

MaxOps == 3         \* operator objects constructed in one run
MaxDicts == 3       \* dict objects allocated in one run
MaxSteps == 2       \* steps added to the pipeline between two clears
MaxDocLen == 3      \* longest document list handed to process
MaxCalls == 3       \* latest request of a pipeline run at which the chat model fails
MaxReorderLen == 6  \* longest list handed to _reorder_for_llm on its own
MaxBuilds == 2      \* build_hierarchy calls on one HierarchicalIndexStrategy
MaxTopN == 3        \* largest top_n / min_docs / num_queries of the operator scenarios
MaxTextLen == 3     \* longest text handed to the word-set similarity
MaxContentLen == 4  \* longest content handed to _compress_content

----------------------------------------------------------------------------
(* Python values held in a config dict: None, an int or a str *)

NoneV == [kind |-> "none", s |-> "", n |-> 0]
IntV(i) == [kind |-> "int", s |-> "", n |-> i]
StrV(x) == [kind |-> "str", s |-> x, n |-> 0]

\* bool(v)
Truthy(v) ==
    CASE v.kind = "none" -> FALSE
      [] v.kind = "int" -> v.n # 0
      [] v.kind = "str" -> v.s # ""

\* {} ; a dict is a function from the keys present to values
EmptyDict == << >>

\* d.get(k, default)
dict_get(d, k, default) == IF k \in DOMAIN d THEN d[k] ELSE default

\* d.update(n): the content of d afterwards
dict_update(d, n) ==
    [k \in (DOMAIN d) \cup (DOMAIN n) |-> IF k \in DOMAIN n THEN n[k] ELSE d[k]]

\* d[k] = v: the content of d afterwards
dict_setitem(d, k, v) ==
    [x \in (DOMAIN d) \cup {k} |-> IF x = k THEN v ELSE d[x]]

\* str.lower() on the strategy names the model passes in
Lower(s) ==
    CASE s = "RERANK" -> "rerank"
      [] s = "Multi_Query" -> "multi_query"
      [] s = "BM25" -> "bm25"
      [] s = "CoT" -> "cot"
      [] s = "Stream" -> "stream"
      [] OTHER -> s

----------------------------------------------------------------------------
(* The registries: _init_operator of the three single-operator modules,    *)
(* _init_prompt_operator and _init_generator_operator of GenerationModule  *)

Families == {"pre", "post", "retrieval"}

\* the name -> class branches of the if/elif chains
RegisteredNames(family) ==
    CASE family = "pre" ->
            {"multi_query", "sub_query", "hybrid_expansion", "query_rewrite", "hyde",
             "step_back", "cot_rewrite", "text_to_sql", "text_to_cypher", "metadata_filter"}
      [] family = "post" ->
            {"rerank", "diversity_rerank", "llm_rerank", "context_compression",
             "summary_compression", "token_compression", "selection",
             "relevance_filter", "redundancy_filter"}
      [] family = "retrieval" ->
            {"dense", "semantic", "multi_vector", "bm25", "tfidf", "keyword", "regex",
             "hybrid", "ensemble", "adaptive_hybrid", "adaptive_k", "query_router",
             "threshold"}
      [] family = "prompt" -> {"template", "contextual", "cot", "chain_of_thought"}
      [] family = "generator" -> {"llm", "stream", "ensemble"}

ClassOfName(name) ==
    CASE name = "multi_query" -> "MultiQueryOperator"
      [] name = "sub_query" -> "SubQueryOperator"
      [] name = "hybrid_expansion" -> "HybridExpansionOperator"
      [] name = "query_rewrite" -> "QueryRewriteOperator"
      [] name = "hyde" -> "HyDEOperator"
      [] name = "step_back" -> "StepBackOperator"
      [] name = "cot_rewrite" -> "ChainOfThoughtRewriteOperator"
      [] name = "text_to_sql" -> "TextToSQLOperator"
      [] name = "text_to_cypher" -> "TextToCypherOperator"
      [] name = "metadata_filter" -> "MetadataFilterOperator"
      [] name = "rerank" -> "RerankOperator"
      [] name = "diversity_rerank" -> "DiversityRerankOperator"
      [] name = "llm_rerank" -> "LLMRerankOperator"
      [] name = "context_compression" -> "ContextCompressionOperator"
      [] name = "summary_compression" -> "SummaryCompressionOperator"
      [] name = "token_compression" -> "TokenCompressionOperator"
      [] name = "selection" -> "SelectionOperator"
      [] name = "relevance_filter" -> "RelevanceFilterOperator"
      [] name = "redundancy_filter" -> "RedundancyFilterOperator"
      [] name = "dense" -> "DenseRetrieverOperator"
      [] name = "semantic" -> "SemanticRetrieverOperator"
      [] name = "multi_vector" -> "MultiVectorRetrieverOperator"
      [] name = "bm25" -> "BM25RetrieverOperator"
      [] name = "tfidf" -> "TFIDFRetrieverOperator"
      [] name = "keyword" -> "KeywordRetrieverOperator"
      [] name = "regex" -> "RegexRetrieverOperator"
      [] name = "hybrid" -> "HybridRetrieverOperator"
      [] name = "ensemble" -> "EnsembleRetrieverOperator"
      [] name = "adaptive_hybrid" -> "AdaptiveHybridRetrieverOperator"
      [] name = "adaptive_k" -> "AdaptiveKRetrieverOperator"
      [] name = "query_router" -> "QueryRouterRetrieverOperator"
      [] name = "threshold" -> "ThresholdRetrieverOperator"
      [] name = "template" -> "PromptTemplateOperator"
      [] name = "contextual" -> "ContextualPromptOperator"
      [] name = "cot" -> "ChainOfThoughtPromptOperator"
      [] name = "chain_of_thought" -> "ChainOfThoughtPromptOperator"
      [] name = "llm" -> "LLMGeneratorOperator"
      [] name = "stream" -> "StreamGeneratorOperator"

\* the class of the final else branch, and the default of config.get("strategy", ...)
DefaultName(family) ==
    CASE family = "pre" -> "query_rewrite"
      [] family = "post" -> "rerank"
      [] family = "retrieval" -> "dense"
      [] family = "prompt" -> "template"
      [] family = "generator" -> "llm"

DefaultClass(family) == ClassOfName(DefaultName(family))

\* the class a registered name selects in the registry of `family`; "ensemble" is a
\* name of the retrieval registry and of the generator registry
ClassOf(family, name) ==
    IF family = "generator" /\ name = "ensemble" THEN "EnsembleGeneratorOperator"
    ELSE ClassOfName(name)

----------------------------------------------------------------------------
(* Operator objects *)

\* config keys the model tracks; the other keys of the source are left at their defaults
ReadKeys(cls) ==
    (IF cls \in {"RerankOperator", "DiversityRerankOperator", "LLMRerankOperator"}
        THEN {"top_n"} ELSE {})
    \cup (IF cls = "SelectionOperator" THEN {"top_k"} ELSE {})
    \cup (IF cls = "RelevanceFilterOperator" THEN {"min_docs"} ELSE {})
    \cup (IF cls = "MultiQueryOperator" THEN {"num_queries"} ELSE {})
    \cup (IF cls \in {"MultiQueryOperator", "SubQueryOperator", "QueryRewriteOperator",
                      "HyDEOperator", "StepBackOperator", "ChainOfThoughtRewriteOperator",
                      "TextToSQLOperator", "TextToCypherOperator", "MetadataFilterOperator",
                      "SummaryCompressionOperator", "LLMRerankOperator",
                      "RelevanceFilterOperator", "LLMGeneratorOperator",
                      "StreamGeneratorOperator"}
        THEN {"model"} ELSE {})
    \cup (IF cls \in {"SemanticRetrieverOperator", "MultiVectorRetrieverOperator",
                      "BM25RetrieverOperator", "TFIDFRetrieverOperator",
                      "KeywordRetrieverOperator", "RegexRetrieverOperator",
                      "HybridRetrieverOperator", "EnsembleRetrieverOperator",
                      "AdaptiveHybridRetrieverOperator", "QueryRouterRetrieverOperator"}
        THEN {"k"} ELSE {})
    \cup (IF cls = "PromptTemplateOperator" THEN {"include_sources"} ELSE {})
    \cup (IF cls = "ContextualPromptOperator" THEN {"max_context_length"} ELSE {})

\* the default of self.config.get(key, default) in the constructors
DefaultOf(key) ==
    CASE key = "top_n" -> NoneV
      [] key = "top_k" -> IntV(5)
      [] key = "min_docs" -> IntV(1)
      [] key = "num_queries" -> IntV(3)
      [] key = "model" -> StrV("qwen-plus")
      [] key = "k" -> IntV(5)
      [] key = "include_sources" -> IntV(0)
      [] key = "max_context_length" -> IntV(3000)

\* classes whose constructor opens the chat client (ChatQwen(...)), which may raise
ClientClasses ==
    {"MultiQueryOperator", "SubQueryOperator", "HybridExpansionOperator",
     "QueryRewriteOperator", "HyDEOperator", "StepBackOperator",
     "ChainOfThoughtRewriteOperator", "TextToSQLOperator", "TextToCypherOperator",
     "MetadataFilterOperator", "SummaryCompressionOperator", "LLMRerankOperator",
     "RelevanceFilterOperator", "LLMGeneratorOperator", "StreamGeneratorOperator",
     "EnsembleGeneratorOperator"}

NoOp ==
    [id |-> 0, cls |-> "", config |-> 0, attrs |-> EmptyDict, retriever |-> FALSE,
     documents |-> FALSE]

\* the attributes a constructor reads out of the config it is given
AttrsFrom(cls, d) == [k \in ReadKeys(cls) |-> dict_get(d, k, DefaultOf(k))]

\* cls(config): Base*Operator.__init__ (self.config = config or {}) followed by the
\* subclass constructor; clientFails: the chat client cannot be opened
new_operator(cls, cid, ds, nid, clientFails) ==
    LET isEmpty == ds[cid] = EmptyDict
        ocid == IF isEmpty THEN Len(ds) + 1 ELSE cid
        ds1 == IF isEmpty THEN Append(ds, EmptyDict) ELSE ds
    IN  IF clientFails /\ cls \in ClientClasses
        THEN [raised |-> TRUE, op |-> NoOp, dicts |-> ds]
        ELSE [raised |-> FALSE,
              op |-> [id |-> nid, cls |-> cls, config |-> ocid,
                      attrs |-> AttrsFrom(cls, ds[cid]), retriever |-> FALSE,
                      documents |-> FALSE],
              dicts |-> ds1]

\* _init_operator with an unknown name raising instead of falling back
init_operator_strict(family, strategy, cid, ds, nid, clientFails) ==
    LET name == Lower(strategy)
        known == name \in RegisteredNames(family)
        r == new_operator(IF known THEN ClassOf(family, name) ELSE DefaultClass(family),
                          cid, ds, nid, clientFails)
    IN  IF known
        THEN [raised |-> r.raised, warned |-> FALSE, op |-> r.op, dicts |-> r.dicts]
        ELSE [raised |-> TRUE, warned |-> FALSE, op |-> NoOp, dicts |-> ds]

\* Pre/Post/RetrievalModule._init_operator, GenerationModule._init_prompt_operator
\* and GenerationModule._init_generator_operator
init_operator(family, strategy, cid, ds, nid, clientFails) ==
    LET name == Lower(strategy)
        known == name \in RegisteredNames(family)
        r == new_operator(IF known THEN ClassOf(family, name) ELSE DefaultClass(family),
                          cid, ds, nid, clientFails)
    IN  [raised |-> r.raised, warned |-> ~known, op |-> r.op, dicts |-> r.dicts]

----------------------------------------------------------------------------
(* Strings are sequences of characters *)

IsSpace(c) == c \in {" ", "\n"}

RECURSIVE LStrip(_)
LStrip(s) == IF s # << >> /\ IsSpace(Head(s)) THEN LStrip(Tail(s)) ELSE s

RECURSIVE RStrip(_)
RStrip(s) ==
    IF s # << >> /\ IsSpace(s[Len(s)]) THEN RStrip(SubSeq(s, 1, Len(s) - 1)) ELSE s

\* str.strip()
Strip(s) == RStrip(LStrip(s))

\* position of the first c in s, 0 when there is none
RECURSIVE IndexOf(_, _, _)
IndexOf(s, c, i) ==
    IF i > Len(s) THEN 0 ELSE IF s[i] = c THEN i ELSE IndexOf(s, c, i + 1)

\* s.split(c)
RECURSIVE Split(_, _)
Split(s, c) ==
    LET i == IndexOf(s, c, 1)
    IN  IF i = 0 THEN << s >>
        ELSE << SubSeq(s, 1, i - 1) >> \o Split(SubSeq(s, i + 1, Len(s)), c)

\* [f(x) for x in xs if keep(x)] for the two comprehensions of MultiQueryOperator
RECURSIVE StrippedNonEmpty(_)
StrippedNonEmpty(ls) ==
    IF ls = << >> THEN << >>
    ELSE (IF Strip(Head(ls)) # << >> THEN << Strip(Head(ls)) >> ELSE << >>)
         \o StrippedNonEmpty(Tail(ls))

\* q.split(":", 1)[-1].strip() if ":" in q else q
DropNumbering(q) ==
    LET i == IndexOf(q, ":", 1)
    IN  IF i = 0 THEN q ELSE Strip(SubSeq(q, i + 1, Len(q)))

\* xs[:n] for n >= 0 or n < 0
Take(xs, n) ==
    IF n >= 0 THEN SubSeq(xs, 1, IF n < Len(xs) THEN n ELSE Len(xs))
    ELSE SubSeq(xs, 1, IF Len(xs) + n > 0 THEN Len(xs) + n ELSE 0)

InSeq(x, xs) == \E i \in 1..Len(xs) : xs[i] = x

----------------------------------------------------------------------------
(* What an operator call does: the set of outcomes the call can have.  An  *)
(* outcome is a return value or a raised exception; calls that reach the   *)
(* chat model or a retriever have one outcome per reply.  `env` says what   *)
(* the chat model may do during the call: env.rewrite, env.multi and       *)
(* env.relevant are the replies it may give to the three kinds of prompt,  *)
(* env.fails says whether a request may raise.                             *)

Ret(kind, x) == [raised |-> FALSE, err |-> "", kind |-> kind, out |-> x]
Raise(e) == [raised |-> TRUE, err |-> e, kind |-> "", out |-> << >>]

\* the elements of xs at the positions in S, in order
RECURSIVE AtPositions(_, _, _)
AtPositions(xs, S, i) ==
    IF i > Len(xs) THEN << >>
    ELSE (IF i \in S THEN << xs[i] >> ELSE << >>) \o AtPositions(xs, S, i + 1)

\* _reorder_for_llm with the larger half of the first third kept in front
reorder_for_llm_half_up(documents) ==
    IF Len(documents) <= 2 THEN documents
    ELSE LET n == Len(documents)
             high == SubSeq(documents, 1, n \div 3)
             mid == SubSeq(documents, (n \div 3) + 1, (2 * n) \div 3)
             low == SubSeq(documents, ((2 * n) \div 3) + 1, n)
             half_high == (Len(high) + 1) \div 2
         IN  SubSeq(high, 1, half_high) \o mid \o low
                \o SubSeq(high, half_high + 1, Len(high))

\* RerankOperator._reorder_for_llm
reorder_for_llm(documents) ==
    IF Len(documents) <= 2 THEN documents
    ELSE LET n == Len(documents)
             high == SubSeq(documents, 1, n \div 3)
             mid == SubSeq(documents, (n \div 3) + 1, (2 * n) \div 3)
             low == SubSeq(documents, ((2 * n) \div 3) + 1, n)
             half_high == Len(high) \div 2
         IN  SubSeq(high, 1, half_high) \o mid \o low
                \o SubSeq(high, half_high + 1, Len(high))

\* RerankOperator.process keeping the first top_n documents before it reorders them
RerankOperator_process_cut_first(op, documents, query, env) ==
    IF documents = << >> THEN {Ret("list", << >>)}
    ELSE LET top_n == op.attrs["top_n"]
         IN  IF ~Truthy(top_n) THEN {Ret("list", reorder_for_llm(documents))}
             ELSE IF top_n.kind = "str" THEN {Raise("TypeError")}
             ELSE IF top_n.n < Len(documents)
                  THEN {Ret("list", reorder_for_llm(Take(documents, top_n.n)))}
             ELSE {Ret("list", reorder_for_llm(documents))}

\* RerankOperator.process (reverse_order is not a tracked key: it keeps its default False)
RerankOperator_process(op, documents, query, env) ==
    IF documents = << >> THEN {Ret("list", << >>)}
    ELSE LET reranked == reorder_for_llm(documents)
             top_n == op.attrs["top_n"]
         IN  IF ~Truthy(top_n) THEN {Ret("list", reranked)}
             ELSE IF top_n.kind = "str" THEN {Raise("TypeError")}
             ELSE IF top_n.n < Len(reranked) THEN {Ret("list", Take(reranked, top_n.n))}
             ELSE {Ret("list", reranked)}

\* SelectionOperator.process: documents[:self.top_k]
SelectionOperator_process(op, documents, query, env) ==
    IF documents = << >> THEN {Ret("list", << >>)}
    ELSE LET top_k == op.attrs["top_k"]
         IN  CASE top_k.kind = "none" -> {Ret("list", documents)}
               [] top_k.kind = "str" -> {Raise("TypeError")}
               [] top_k.kind = "int" -> {Ret("list", Take(documents, top_k.n))}

\* RelevanceFilterOperator.process: one verdict of _check_relevance per document (a
\* failed check counts as relevant); V is the set of documents judged relevant
RelevanceFilterOperator_process(op, documents, query, env) ==
    IF documents = << >> THEN {Ret("list", << >>)}
    ELSE IF query = << >> THEN {Ret("list", documents)}
    ELSE LET min_docs == op.attrs["min_docs"]
         IN  IF min_docs.kind # "int" THEN {Raise("TypeError")}
             ELSE {Ret("list",
                       LET S == {i \in 1..Len(documents) : documents[i] \in V}
                           filtered_docs == AtPositions(documents, S, 1)
                       IN  IF Len(filtered_docs) < min_docs.n
                           THEN Take(documents, min_docs.n)
                           ELSE filtered_docs)
                   : V \in env.relevant}

\* what the chat model may answer to a rewrite prompt: a fixed rewrite, or the query
\* itself with white space around it
RewriteReplyKinds == {"const", "echo"}

RewriteReply(kind, query) ==
    IF kind = "const" THEN << "r" >> ELSE << " " >> \o query \o << "\n" >>

\* what the chat model may answer to a multi-query prompt
MultiQueryReplies ==
    { << "a", "\n", "b", "\n", "c" >>,
      << "1", ":", "a", "\n", "\n", " ", "2", ":", " ", "b" >>,
      << "q", "\n", "a", "\n", "b", "\n", "c" >>,
      << "a", "\n", "b", "\n", "c", "\n", "d", "\n", "e" >>,
      << "a", "\n", "q" >>,
      << >> }

\* QueryRewriteOperator.execute: chain.invoke(...).strip(), the call is not guarded
QueryRewriteOperator_execute(op, query, env) ==
    {Ret("str", Strip(RewriteReply(k, query))) : k \in env.rewrite}
    \cup (IF env.fails THEN {Raise("LLMError")} ELSE {})

\* the parsing half of MultiQueryOperator.execute, for the reply `result`
MultiQuery_parse(query, result, num_queries) ==
    LET lines == StrippedNonEmpty(Split(Strip(result), "\n"))
        queries == [i \in 1..Len(lines) |-> DropNumbering(lines[i])]
        withOriginal == IF InSeq(query, queries) THEN queries ELSE << query >> \o queries
    IN  Take(withOriginal, num_queries + 1)

\* MultiQueryOperator.execute
MultiQueryOperator_execute(op, query, env) ==
    LET num_queries == op.attrs["num_queries"]
    IN  (IF env.fails THEN {Raise("LLMError")} ELSE {})
        \cup (IF num_queries.kind # "int"
              THEN (IF env.multi # {} THEN {Raise("TypeError")} ELSE {})
              ELSE {Ret("list", MultiQuery_parse(query, r, num_queries.n))
                    : r \in env.multi})

\* retriever classes that use BaseRetrievalOperator.retrieve unchanged
BaseRetrieveClasses ==
    {"DenseRetrieverOperator", "SemanticRetrieverOperator", "BM25RetrieverOperator",
     "TFIDFRetrieverOperator", "HybridRetrieverOperator", "EnsembleRetrieverOperator"}

\* what retriever.invoke(query) may return
RetrievedLists == { << >>, << 1 >>, << 2, 1 >> }

\* the chat model free to give any of its replies, or to fail
AnyEnv ==
    [rewrite |-> RewriteReplyKinds, multi |-> MultiQueryReplies,
     relevant |-> SUBSET (1..MaxDocLen), fails |-> TRUE]

\* BaseRetrievalOperator.retrieve for a single query string
BaseRetrievalOperator_retrieve(op, query) ==
    IF ~op.retriever THEN {Raise("ValueError")}
    ELSE {Ret("list", ds) : ds \in RetrievedLists} \cup {Raise("RetrieverError")}

\* retriever classes that scan the documents handed to build_retriever themselves:
\* build_retriever stores the documents and leaves self.retriever None
ScanRetrieveClasses == {"KeywordRetrieverOperator", "RegexRetrieverOperator"}

\* KeywordRetrieverOperator.retrieve / RegexRetrieverOperator.retrieve:
\* op.documents says whether self.documents is non-empty; a pattern that does not
\* compile makes the regex scan return []
ScanRetrieverOperator_retrieve(op, query) ==
    IF ~op.documents THEN {Ret("list", << >>)}
    ELSE {Ret("list", ds) : ds \in RetrievedLists}

\* operator.process(documents, query) / operator.execute(query) / operator.retrieve(query)
\* for the operator classes whose call the model covers
operator_call(op, input, query, env) ==
    CASE op.cls = "RerankOperator" -> RerankOperator_process(op, input, query, env)
      [] op.cls = "SelectionOperator" -> SelectionOperator_process(op, input, query, env)
      [] op.cls = "RelevanceFilterOperator" ->
            RelevanceFilterOperator_process(op, input, query, env)
      [] op.cls = "QueryRewriteOperator" -> QueryRewriteOperator_execute(op, query, env)
      [] op.cls = "MultiQueryOperator" -> MultiQueryOperator_execute(op, query, env)
      [] op.cls \in BaseRetrieveClasses -> BaseRetrievalOperator_retrieve(op, query)
      [] op.cls \in ScanRetrieveClasses -> ScanRetrieverOperator_retrieve(op, query)
      [] OTHER -> {}

----------------------------------------------------------------------------
(* PreRetrievalModule / PostRetrievalModule / RetrievalModule.  The three  *)
(* classes have the same __init__, change_strategy and summary; `family`   *)
(* selects the registry and the call process/retrieve forwards to.         *)

ModuleName(family) ==
    CASE family = "pre" -> "PreRetrievalModule"
      [] family = "post" -> "PostRetrievalModule"
      [] family = "retrieval" -> "RetrievalModule"

\* Module.__init__(config): config is the caller's mapping, EmptyDict for None or {}
Module_new(family, config, ds, nid, clientFails) ==
    LET cid == Len(ds) + 1
        ds1 == Append(ds, config)
        strategy == dict_get(config, "strategy", StrV(DefaultName(family))).s
        r == init_operator(family, strategy, cid, ds1, nid, clientFails)
    IN  [raised |-> r.raised, warned |-> r.warned,
         mod |-> [family |-> family, strategy |-> strategy, config |-> cid,
                  operator |-> r.op],
         dicts |-> IF r.raised THEN ds ELSE r.dicts]

\* change_strategy that rebuilds the operator before merging new_config
change_strategy_late_merge(m, new_strategy, new_config, ds, nid, clientFails) ==
    LET r == init_operator(m.family, new_strategy, m.config, ds, nid, clientFails)
        ds1 == IF r.raised THEN ds ELSE r.dicts
    IN  [raised |-> r.raised, warned |-> r.warned,
         mod |-> [m EXCEPT !.strategy = new_strategy,
                           !.operator = IF r.raised THEN @ ELSE r.op],
         dicts |-> IF new_config # EmptyDict
                   THEN [ds1 EXCEPT ![m.config] = dict_update(@, new_config)]
                   ELSE ds1]

\* Module.change_strategy(new_strategy, new_config): the three assignments in order;
\* when _init_operator raises the first two have already happened
change_strategy(m, new_strategy, new_config, ds, nid, clientFails) ==
    LET ds1 == IF new_config # EmptyDict
               THEN [ds EXCEPT ![m.config] = dict_update(@, new_config)]
               ELSE ds
        r == init_operator(m.family, new_strategy, m.config, ds1, nid, clientFails)
    IN  [raised |-> r.raised, warned |-> r.warned,
         mod |-> [m EXCEPT !.strategy = new_strategy,
                           !.operator = IF r.raised THEN @ ELSE r.op],
         dicts |-> IF r.raised THEN ds1 ELSE r.dicts]

\* process wrapping the operator call in try/except and returning [] on an error
Module_process_catching(m, input, query, env) ==
    IF m.family = "post" /\ input = << >> THEN {Ret("list", << >>)}
    ELSE {IF o.raised THEN Ret("list", << >>) ELSE o
          : o \in operator_call(m.operator, input, query, env)}

\* Module.process / RetrievalModule.retrieve: the outcomes of one call
Module_process(m, input, query, env) ==
    IF m.family = "post" /\ input = << >> THEN {Ret("list", << >>)}
    ELSE operator_call(m.operator, input, query, env)

\* RetrievalModule.build -> operator.build_retriever(**kwargs); argsOk: the keyword
\* arguments the operator class requires were passed
Module_build(m, argsOk) ==
    IF ~argsOk THEN [raised |-> TRUE, mod |-> m]
    ELSE IF m.operator.cls \in ScanRetrieveClasses
    THEN [raised |-> FALSE, mod |-> [m EXCEPT !.operator.documents = TRUE]]
    ELSE [raised |-> FALSE, mod |-> [m EXCEPT !.operator.retriever = TRUE]]

\* Module.summary()
Module_summary(m, ds) ==
    [module |-> ModuleName(m.family), strategy |-> m.strategy,
     operator |-> m.operator.cls, config |-> m.config]

----------------------------------------------------------------------------
(* GenerationModule: a prompt operator and a generator operator over one config *)

\* GenerationModule.__init__(config)
Generation_new(config, ds, nid, clientFails) ==
    LET cid == Len(ds) + 1
        ds1 == Append(ds, config)
        prompt_strategy == dict_get(config, "prompt_strategy", StrV("template")).s
        generator_type == dict_get(config, "generator", StrV("llm")).s
        p == init_operator("prompt", prompt_strategy, cid, ds1, nid, FALSE)
        g == init_operator("generator", generator_type, cid, p.dicts, nid + 1, clientFails)
    IN  [raised |-> g.raised, promptWarned |-> p.warned, generatorWarned |-> g.warned,
         gen |-> [exists |-> TRUE, prompt_strategy |-> prompt_strategy,
                  generator_type |-> generator_type, config |-> cid,
                  prompt_operator |-> p.op, generator_operator |-> g.op],
         dicts |-> IF g.raised THEN ds ELSE g.dicts,
         nextOp |-> IF g.raised THEN nid ELSE nid + 2]

\* GenerationModule.change_strategy(prompt_strategy, generator_type, new_config):
\* the arguments are Python values, NoneV when not passed
Generation_change_strategy(g, prompt_strategy, generator_type, new_config, ds, nid, clientFails) ==
    LET doPrompt == Truthy(prompt_strategy)
        p == init_operator("prompt", prompt_strategy.s, g.config, ds, nid, FALSE)
        g1 == IF doPrompt
              THEN [g EXCEPT !.prompt_strategy = prompt_strategy.s, !.prompt_operator = p.op]
              ELSE g
        ds1 == IF doPrompt THEN p.dicts ELSE ds
        nid1 == IF doPrompt THEN nid + 1 ELSE nid
        doGenerator == Truthy(generator_type)
        o == init_operator("generator", generator_type.s, g.config, ds1, nid1, clientFails)
        raised == doGenerator /\ o.raised
        g2 == IF ~doGenerator THEN g1
              ELSE IF o.raised THEN [g1 EXCEPT !.generator_type = generator_type.s]
              ELSE [g1 EXCEPT !.generator_type = generator_type.s,
                              !.generator_operator = o.op]
        ds2 == IF doGenerator /\ ~o.raised THEN o.dicts ELSE ds1
        nid2 == IF doGenerator /\ ~o.raised THEN nid1 + 1 ELSE nid1
        ds3 == IF ~raised /\ new_config # EmptyDict
               THEN [ds2 EXCEPT ![g.config] = dict_update(@, new_config)]
               ELSE ds2
    IN  [raised |-> raised,
         promptWarned |-> doPrompt /\ p.warned,
         generatorWarned |-> doGenerator /\ o.warned,
         gen |-> g2, dicts |-> ds3, nextOp |-> nid2]

\* GenerationModule.summary()
Generation_summary(g, ds) ==
    [module |-> "GenerationModule", prompt_strategy |-> g.prompt_strategy,
     generator_type |-> g.generator_type, prompt_operator |-> g.prompt_operator.cls,
     generator_operator |-> g.generator_operator.cls, config |-> g.config]

\* A text is a sequence of pieces: single characters, or a whole phrase where only
\* its presence matters.  What one chat-model request of a generator does: it
\* answers with a text, or it raises an exception whose message is `text`.
LLMReplies ==
    { [ok |-> TRUE, text |-> << "a" >>],
      [ok |-> TRUE, text |-> << " ", "a", "b", "\n" >>],
      [ok |-> FALSE, text |-> << "timeout" >>] }

\* "抱歉，生成答案时出现错误：" in front of str(e)
ErrorApology == "Sorry, an error occurred while generating the answer: "

\* "抱歉，所有模型都生成失败。"
AllFailedApology == "Sorry, all models failed to generate."

\* how many chat models an EnsembleGeneratorOperator asks (the default `models`)
EnsembleSize == 2

\* LLMGeneratorOperator.execute for the reply of its request
LLMGeneratorOperator_execute(op, replies) ==
    IF replies[1].ok THEN Ret("str", Strip(replies[1].text))
    ELSE Ret("str", << ErrorApology >> \o replies[1].text)

\* StreamGeneratorOperator.execute: the chunks joined and stripped, or the apology
\* when the stream raises
StreamGeneratorOperator_execute(op, replies) ==
    IF replies[1].ok THEN Ret("str", Strip(replies[1].text))
    ELSE Ret("str", << ErrorApology >> \o replies[1].text)

\* max(answers, key=len): the first of the longest answers
RECURSIVE MaxByLen(_)
MaxByLen(answers) ==
    IF Len(answers) = 1 THEN answers[1]
    ELSE LET rest == MaxByLen(Tail(answers))
         IN  IF Len(Head(answers)) >= Len(rest) THEN Head(answers) ELSE rest

\* EnsembleGeneratorOperator.execute with fusion_strategy "voting" (the default):
\* replies[i] is what model i does
EnsembleGeneratorOperator_execute(op, replies) ==
    LET ok == SelectSeq(replies, LAMBDA r : r.ok)
        answers == [i \in 1..Len(ok) |-> Strip(ok[i].text)]
    IN  IF answers = << >> THEN Ret("str", << AllFailedApology >>)
        ELSE Ret("str", MaxByLen(answers))

\* the chat-model requests generator_operator.execute makes
RequestsOf(cls) == IF cls = "EnsembleGeneratorOperator" THEN 1..EnsembleSize ELSE {1}

\* GenerationModule.generate(query, context): the prompt is built, then
\* generator_operator.execute(query, context, prompt=prompt) is returned
Generation_generate(g, replies) ==
    CASE g.generator_operator.cls = "LLMGeneratorOperator" ->
            LLMGeneratorOperator_execute(g.generator_operator, replies)
      [] g.generator_operator.cls = "StreamGeneratorOperator" ->
            StreamGeneratorOperator_execute(g.generator_operator, replies)
      [] g.generator_operator.cls = "EnsembleGeneratorOperator" ->
            EnsembleGeneratorOperator_execute(g.generator_operator, replies)

----------------------------------------------------------------------------
(* PreRetrievalPipeline / PostRetrievalPipeline: a list of modules of one  *)
(* family.  A call of process is described by the calls it makes on its    *)
(* steps (the log) and by what the caller gets.                            *)

PipelineName(family) ==
    IF family = "pre" THEN "PreRetrievalPipeline" ELSE "PostRetrievalPipeline"

\* Pipeline.__init__
Pipeline_new(family) == [family |-> family, steps |-> << >>]

\* add_step that puts the new module in front of the list
Pipeline_add_step_front(p, strategy, config, ds, nid, clientFails) ==
    LET step_config == dict_setitem(config, "strategy", StrV(strategy))
        r == Module_new(p.family, step_config, ds, nid, clientFails)
    IN  [raised |-> r.raised, warned |-> r.warned,
         pipe |-> IF r.raised THEN p ELSE [p EXCEPT !.steps = << r.mod >> \o @],
         dicts |-> r.dicts]

\* Pipeline.add_step(strategy, config): step_config = config or {};
\* step_config["strategy"] = strategy; steps.append(Module(step_config))
Pipeline_add_step(p, strategy, config, ds, nid, clientFails) ==
    LET step_config == dict_setitem(config, "strategy", StrV(strategy))
        r == Module_new(p.family, step_config, ds, nid, clientFails)
    IN  [raised |-> r.raised, warned |-> r.warned,
         pipe |-> IF r.raised THEN p ELSE [p EXCEPT !.steps = Append(@, r.mod)],
         dicts |-> r.dicts]

\* Pipeline.clear()
Pipeline_clear(p) == [p EXCEPT !.steps = << >>]

\* Pipeline.summary()
Pipeline_summary(p) ==
    [type |-> PipelineName(p.family), num_steps |-> Len(p.steps),
     steps |-> [i \in 1..Len(p.steps) |-> p.steps[i].strategy]]

\* the chat model during the n-th step.process call of a run: it gives the replies
\* of the script, or fails if the script says so
EnvAt(script, n) ==
    [rewrite |-> IF script.failAt = n THEN {} ELSE {script.rewrite},
     multi |-> IF script.failAt = n THEN {} ELSE {script.multi},
     relevant |-> {script.relevant},
     fails |-> script.failAt = n]

\* a str result as a one-element list, a list result as it is
AsList(o) == IF o.kind = "list" THEN o.out ELSE << o.out >>

\* one step.process call in the log of a run
LogEntry(i, input, o) ==
    [step |-> i, input |-> input, raised |-> o.raised,
     outs |-> IF o.raised THEN << >> ELSE AsList(o)]

\* a failing step whose error is swallowed: process returns what it has so far
abort_returning_partial(o, current, log) ==
    [raised |-> FALSE, err |-> "", errStep |-> 0, errName |-> "",
     kind |-> "list", out |-> current, log |-> log]

\* step.process raised inside the loop of Pipeline.process: there is no except
\* clause, the caller gets the operator's exception as it is (it names no step)
abort(o, current, log) ==
    [raised |-> TRUE, err |-> o.err, errStep |-> 0, errName |-> "",
     kind |-> "", out |-> << >>, log |-> log]

\* PostRetrievalPipeline.process: return current_docs
return_docs(current_docs, log) ==
    [raised |-> FALSE, err |-> "", errStep |-> 0, errName |-> "",
     kind |-> "list", out |-> current_docs, log |-> log]

\* PreRetrievalPipeline.process: return current_queries[0] if there is one query,
\* else the list; for kind "str" the value returned is out[1]
return_queries(current_queries, log) ==
    [raised |-> FALSE, err |-> "", errStep |-> 0, errName |-> "",
     kind |-> IF Len(current_queries) = 1 THEN "str" ELSE "list",
     out |-> current_queries, log |-> log]

\* a list result contributing its first element only
extend_queries_first(next_queries, o) == Append(next_queries, AsList(o)[1])

\* PreRetrievalPipeline.process: next_queries.extend(result) for a list,
\* next_queries.append(result) for a str
extend_queries(next_queries, o) ==
    IF o.kind = "list" THEN next_queries \o o.out ELSE Append(next_queries, o.out)

\* the loop of PostRetrievalPipeline.process from step i on
RECURSIVE PostRun(_, _, _, _, _, _)
PostRun(steps, i, current_docs, query, script, log) ==
    IF i > Len(steps) THEN {return_docs(current_docs, log)}
    ELSE UNION {
           (LET log1 == Append(log, LogEntry(i, current_docs, o))
            IN  IF o.raised THEN {abort(o, current_docs, log1)}
                ELSE PostRun(steps, i + 1, o.out, query, script, log1))
           : o \in Module_process(steps[i], current_docs, query,
                                  EnvAt(script, Len(log) + 1)) }

\* the two loops of PreRetrievalPipeline.process from query j of step i on
RECURSIVE PreRun(_, _, _, _, _, _, _)
PreRun(steps, i, current_queries, j, next_queries, script, log) ==
    IF i > Len(steps) THEN {return_queries(current_queries, log)}
    ELSE IF j > Len(current_queries)
    THEN PreRun(steps, i + 1, next_queries, 1, << >>, script, log)
    ELSE UNION {
           (LET log1 == Append(log, LogEntry(i, current_queries[j], o))
            IN  IF o.raised THEN {abort(o, next_queries, log1)}
                ELSE PreRun(steps, i, current_queries, j + 1,
                            extend_queries(next_queries, o), script, log1))
           : o \in Module_process(steps[i], << >>, current_queries[j],
                                  EnvAt(script, Len(log) + 1)) }

\* process running the steps last to first
Pipeline_process_reversed(p, input, query, script) ==
    LET n == Len(p.steps)
        steps == [i \in 1..n |-> p.steps[n + 1 - i]]
    IN  IF p.family = "post"
        THEN PostRun(steps, 1, input, query, script, << >>)
        ELSE PreRun(steps, 1, << query >>, 1, << >>, script, << >>)

\* PostRetrievalPipeline.process(documents, query) / PreRetrievalPipeline.process(query)
Pipeline_process(p, input, query, script) ==
    IF p.family = "post"
    THEN PostRun(p.steps, 1, input, query, script, << >>)
    ELSE PreRun(p.steps, 1, << query >>, 1, << >>, script, << >>)

----------------------------------------------------------------------------
(* Inputs of the calls *)

StrategyInputs(family) ==
    CASE family = "pre" -> {"multi_query", "query_rewrite", "Multi_Query", "nonesuch", ""}
      [] family = "post" -> {"rerank", "selection", "relevance_filter", "RERANK",
                             "nonesuch", ""}
      [] family = "retrieval" -> {"dense", "bm25", "BM25", "keyword", "nonesuch", ""}
      [] OTHER -> {}

\* mappings passed to a module constructor
InitConfigs(family) ==
    CASE family = "pre" ->
            { EmptyDict,
              [strategy |-> StrV("multi_query"), num_queries |-> IntV(3)],
              [model |-> StrV("qwen-max")],
              [strategy |-> StrV("nonesuch")] }
      [] family = "post" ->
            { EmptyDict,
              [strategy |-> StrV("rerank"), top_n |-> IntV(2)],
              [top_n |-> StrV("two")],
              [strategy |-> StrV("relevance_filter")],
              [strategy |-> StrV("nonesuch")] }
      [] family = "retrieval" ->
            { EmptyDict,
              [strategy |-> StrV("bm25"), k |-> IntV(3)],
              [strategy |-> StrV("nonesuch")] }

\* mappings passed as new_config (EmptyDict for None or {})
ConfigUpdates(family) ==
    CASE family = "pre" -> { EmptyDict, [num_queries |-> IntV(1)], [model |-> StrV("qwen-max")] }
      [] family = "post" -> { EmptyDict, [top_n |-> IntV(1)], [top_k |-> IntV(2)],
                              [top_n |-> StrV("two")] }
      [] family = "retrieval" -> { EmptyDict, [k |-> IntV(3)] }
      [] OTHER -> {}

\* mappings passed to GenerationModule(config)
GenInitConfigs ==
    { EmptyDict,
      [prompt_strategy |-> StrV("contextual"), generator |-> StrV("stream")],
      [generator |-> StrV("ensemble")],
      [prompt_strategy |-> StrV("nonesuch"), generator |-> StrV("nonesuch"),
       model |-> StrV("qwen-max")] }

\* arguments of GenerationModule.change_strategy
PromptStrategyInputs == { NoneV, StrV(""), StrV("contextual"), StrV("nonesuch") }
GeneratorTypeInputs == { NoneV, StrV("Stream"), StrV("nonesuch") }
GenConfigUpdates == { EmptyDict, [model |-> StrV("qwen-max"), include_sources |-> IntV(1)] }

\* document lists handed to process: documents are numbered by rank
DocLists == { [i \in 1..n |-> i] : n \in 0..MaxDocLen }

\* the query argument, a character sequence; << >> stands for None or the empty
\* string, which the pre family is not called with
QueryInputs(family) == IF family = "pre" THEN { << "q" >> } ELSE { << >>, << "q" >> }

\* the documents argument; only PostRetrievalModule.process has one
DocInputs(family) == IF family = "post" THEN DocLists ELSE { << >> }

\* strategy names passed to add_step
StepNames(family) ==
    CASE family = "pre" -> {"query_rewrite", "multi_query"}
      [] family = "post" -> {"rerank", "selection", "relevance_filter"}

\* mappings passed to add_step as config (EmptyDict for None or {})
StepConfigs(family) ==
    CASE family = "pre" -> { EmptyDict, [num_queries |-> IntV(1)] }
      [] family = "post" -> { EmptyDict, [top_n |-> StrV("two"), top_k |-> IntV(1)] }

\* the documents handed to a pipeline's process; only the post family has any
PipelineDocInputs(family) ==
    IF family = "post" THEN { << >>, [i \in 1..MaxDocLen |-> i] } ELSE { << >> }

\* what the chat model does during one run of a pipeline: its reply to every rewrite
\* prompt, to every multi-query prompt, the documents it judges relevant, and the
\* number of the request that fails (0: none)
Scripts(family) ==
    CASE family = "pre" ->
            [rewrite : RewriteReplyKinds,
             multi : { << "a", "\n", "b", "\n", "c" >>, << "a", "\n", "q" >>, << >> },
             relevant : { {} },
             failAt : 0..MaxCalls]
      [] family = "post" ->
            [rewrite : {"const"}, multi : { << >> },
             relevant : { {}, {1, 3}, 1..MaxDocLen },
             failAt : {0}]

----------------------------------------------------------------------------
(* Calls on the module the caller holds: one of the three single-operator  *)
(* modules or a GenerationModule                                           *)

NoMod == [family |-> "none"]
NoGen == [exists |-> FALSE]
NoPipe == [family |-> "none", steps |-> << >>]
NoThreads == [proc |-> [pc |-> "idle"], chg |-> [pc |-> "idle"]]
NoHier == [exists |-> FALSE]

\* mod = XModule(config), until one construction succeeds; a constructor that
\* raises leaves the caller without a module
CallModuleInit(family, config, clientFails) ==
    /\ mod = NoMod
    /\ gen = NoGen
    /\ nextOp <= MaxOps
    /\ LET r == Module_new(family, config, dicts, nextOp, clientFails)
       IN  /\ r.raised = clientFails
           /\ Len(r.dicts) <= MaxDicts
           /\ dicts' = r.dicts
           /\ nextOp' = IF r.raised THEN nextOp ELSE nextOp + 1
           /\ mod' = IF r.raised THEN mod ELSE r.mod
           /\ last' = [call |-> "init", family |-> family, config |-> config,
                       raised |-> r.raised, clientFails |-> clientFails,
                       warned |-> r.warned]
    /\ UNCHANGED <<threads, hier, gen, pipe, added>>

CallChangeStrategy(new_strategy, new_config, clientFails) ==
    /\ mod # NoMod
    /\ nextOp <= MaxOps
    /\ LET r == change_strategy(mod, new_strategy, new_config, dicts, nextOp, clientFails)
       IN  /\ r.raised = clientFails
           /\ Len(r.dicts) <= MaxDicts
           /\ dicts' = r.dicts
           /\ nextOp' = IF r.raised THEN nextOp ELSE nextOp + 1
           /\ mod' = r.mod
           /\ last' = [call |-> "change_strategy", name |-> new_strategy,
                       config |-> new_config, raised |-> r.raised,
                       clientFails |-> clientFails, warned |-> r.warned,
                       pre |-> mod, preConfig |-> dicts[mod.config]]
    /\ UNCHANGED <<threads, hier, gen, pipe, added>>

\* mod.process(documents, query) / mod.process(query) / mod.retrieve(query)
CallProcess(input, query) ==
    /\ mod # NoMod
    /\ \E o \in Module_process(mod, input, query, AnyEnv) :
          last' = [call |-> "process", input |-> input, query |-> query,
                   outcome |-> o, pre |-> mod, preDicts |-> dicts]
    /\ UNCHANGED <<threads, hier, dicts, nextOp, mod, gen, pipe, added>>

CallBuild(argsOk) ==
    /\ mod # NoMod
    /\ mod.family = "retrieval"
    /\ mod.operator.cls \in BaseRetrieveClasses \cup ScanRetrieveClasses
    /\ LET r == Module_build(mod, argsOk)
       IN  /\ mod' = r.mod
           /\ last' = [call |-> "build", raised |-> r.raised]
    /\ UNCHANGED <<threads, hier, dicts, nextOp, gen, pipe, added>>

CallSummary ==
    /\ mod # NoMod
    /\ last' = [call |-> "summary", summary |-> Module_summary(mod, dicts),
                pre |-> mod, preDicts |-> dicts]
    /\ UNCHANGED <<threads, hier, dicts, nextOp, mod, gen, pipe, added>>

\* gen = GenerationModule(config), until one construction succeeds
CallGenInit(config, clientFails) ==
    /\ mod = NoMod
    /\ gen = NoGen
    /\ LET r == Generation_new(config, dicts, nextOp, clientFails)
       IN  /\ r.raised = clientFails
           /\ Len(r.dicts) <= MaxDicts
           /\ r.nextOp <= MaxOps + 1
           /\ dicts' = r.dicts
           /\ nextOp' = r.nextOp
           /\ gen' = IF r.raised THEN gen ELSE r.gen
           /\ last' = [call |-> "gen_init", config |-> config, raised |-> r.raised,
                       clientFails |-> clientFails, promptWarned |-> r.promptWarned,
                       generatorWarned |-> r.generatorWarned]
    /\ UNCHANGED <<threads, hier, mod, pipe, added>>

CallGenChangeStrategy(prompt_strategy, generator_type, new_config, clientFails) ==
    /\ gen # NoGen
    /\ LET r == Generation_change_strategy(gen, prompt_strategy, generator_type,
                                           new_config, dicts, nextOp, clientFails)
       IN  /\ r.raised = clientFails
           /\ Len(r.dicts) <= MaxDicts
           /\ r.nextOp <= MaxOps + 1
           /\ dicts' = r.dicts
           /\ nextOp' = r.nextOp
           /\ gen' = r.gen
           /\ last' = [call |-> "gen_change_strategy", prompt_strategy |-> prompt_strategy,
                       generator_type |-> generator_type, config |-> new_config,
                       raised |-> r.raised, clientFails |-> clientFails,
                       promptWarned |-> r.promptWarned,
                       generatorWarned |-> r.generatorWarned,
                       pre |-> gen, preConfig |-> dicts[gen.config]]
    /\ UNCHANGED <<threads, hier, mod, pipe, added>>

CallGenSummary ==
    /\ gen # NoGen
    /\ last' = [call |-> "gen_summary", summary |-> Generation_summary(gen, dicts),
                pre |-> gen, preDicts |-> dicts]
    /\ UNCHANGED <<threads, hier, dicts, nextOp, mod, gen, pipe, added>>

\* what the chat-model requests of one generate call may do
GenerateReplies(g) ==
    IF g = NoGen THEN {} ELSE [RequestsOf(g.generator_operator.cls) -> LLMReplies]

\* gen.generate(query, context); replies: what each chat-model request does
CallGenerate(replies) ==
    /\ gen # NoGen
    /\ last' = [call |-> "generate", replies |-> replies,
                outcome |-> Generation_generate(gen, replies),
                pre |-> gen, preDicts |-> dicts]
    /\ UNCHANGED <<threads, hier, dicts, nextOp, mod, gen, pipe, added>>

InitModule ==
    /\ threads = NoThreads
    /\ hier = NoHier
    /\ dicts = << >>
    /\ nextOp = 1
    /\ mod = NoMod
    /\ gen = NoGen
    /\ pipe = NoPipe
    /\ added = << >>
    /\ last = [call |-> "none"]

NextModule ==
    \/ \E f \in Families, fails \in BOOLEAN :
          \E c \in InitConfigs(f) : CallModuleInit(f, c, fails)
    \/ \E n \in StrategyInputs(mod.family), c \in ConfigUpdates(mod.family),
          fails \in BOOLEAN : CallChangeStrategy(n, c, fails)
    \/ \E q \in QueryInputs(mod.family), d \in DocInputs(mod.family) : CallProcess(d, q)
    \/ \E ok \in BOOLEAN : CallBuild(ok)
    \/ CallSummary
    \/ \E c \in GenInitConfigs, fails \in BOOLEAN : CallGenInit(c, fails)
    \/ \E p \in PromptStrategyInputs, g \in GeneratorTypeInputs, c \in GenConfigUpdates,
          fails \in BOOLEAN : CallGenChangeStrategy(p, g, c, fails)
    \/ CallGenSummary
    \/ \E replies \in GenerateReplies(gen) : CallGenerate(replies)

SpecModule == InitModule /\ [][NextModule]_vars

----------------------------------------------------------------------------
(* Calls on a pipeline the caller holds *)

\* pipe.add_step(strategy, config)
CallAddStep(strategy, config, clientFails) ==
    /\ Len(pipe.steps) < MaxSteps
    /\ nextOp <= MaxOps
    /\ LET r == Pipeline_add_step(pipe, strategy, config, dicts, nextOp, clientFails)
       IN  /\ r.raised = clientFails
           /\ Len(r.dicts) <= MaxDicts
           /\ dicts' = r.dicts
           /\ nextOp' = IF r.raised THEN nextOp ELSE nextOp + 1
           /\ pipe' = r.pipe
           /\ added' = IF r.raised THEN added ELSE Append(added, strategy)
           /\ last' = [call |-> "add_step", name |-> strategy, config |-> config,
                       raised |-> r.raised, pre |-> pipe]
    /\ UNCHANGED <<threads, hier, mod, gen>>

\* pipe.process(documents, query) / pipe.process(query)
CallPipelineProcess(input, query, script) ==
    /\ \E o \in Pipeline_process(pipe, input, query, script) :
          last' = [call |-> "pipeline_process", input |-> input, query |-> query,
                   outcome |-> o, pre |-> pipe, preDicts |-> dicts]
    /\ UNCHANGED <<threads, hier, dicts, nextOp, mod, gen, pipe, added>>

\* pipe.clear()
CallClear ==
    /\ pipe' = Pipeline_clear(pipe)
    /\ added' = << >>
    /\ last' = [call |-> "clear", pre |-> pipe]
    /\ UNCHANGED <<threads, hier, dicts, nextOp, mod, gen>>

\* pipe.summary()
CallPipelineSummary ==
    /\ last' = [call |-> "pipeline_summary", summary |-> Pipeline_summary(pipe),
                pre |-> pipe, preDicts |-> dicts]
    /\ UNCHANGED <<threads, hier, dicts, nextOp, mod, gen, pipe, added>>

InitPipeline ==
    /\ threads = NoThreads
    /\ hier = NoHier
    /\ dicts = << >>
    /\ nextOp = 1
    /\ mod = NoMod
    /\ gen = NoGen
    /\ pipe \in {Pipeline_new("pre"), Pipeline_new("post")}
    /\ added = << >>
    /\ last = [call |-> "none"]

NextPipeline ==
    \/ \E n \in StepNames(pipe.family), c \in StepConfigs(pipe.family),
          fails \in BOOLEAN : CallAddStep(n, c, fails)
    \/ \E q \in QueryInputs(pipe.family), d \in PipelineDocInputs(pipe.family),
          s \in Scripts(pipe.family) : CallPipelineProcess(d, q, s)
    \/ CallClear
    \/ CallPipelineSummary

SpecPipeline == InitPipeline /\ [][NextPipeline]_vars

----------------------------------------------------------------------------
(* Properties of the modules, checked under SpecModule *)

\* C1: after change_strategy(name, new_config) returns on a Pre/Post/RetrievalModule,
\* summary() reports strategy = name, the config is the previous config with
\* new_config's entries overriding and the other entries kept, and the active operator
\* is a newly constructed object of the class the registry maps name to, built from
\* the merged config.
C1_ChangeStrategyRebuilds ==
    (last.call = "change_strategy" /\ ~last.raised) =>
        LET cfg == dicts[mod.config]
            lname == Lower(last.name)
            cls == IF lname \in RegisteredNames(mod.family)
                   THEN ClassOfName(lname) ELSE DefaultClass(mod.family)
        IN  /\ Module_summary(mod, dicts).strategy = last.name
            /\ Module_summary(mod, dicts).operator = cls
            /\ mod.config = last.pre.config
            /\ DOMAIN cfg = (DOMAIN last.preConfig) \cup (DOMAIN last.config)
            /\ \A k \in DOMAIN cfg :
                  cfg[k] = IF k \in DOMAIN last.config THEN last.config[k]
                           ELSE last.preConfig[k]
            /\ mod.operator.id > last.pre.operator.id
            /\ mod.operator.id = nextOp - 1
            /\ mod.operator.cls = cls
            /\ mod.operator.attrs =
                  [k \in ReadKeys(cls) |-> IF k \in DOMAIN cfg THEN cfg[k] ELSE DefaultOf(k)]

\* a change_strategy that returned, to another operator class, with a new_config that
\* overrides one previous entry and leaves another one alone
C1_Witness ==
    /\ last.call = "change_strategy"
    /\ ~last.raised
    /\ last.name # last.pre.strategy
    /\ mod.operator.cls # last.pre.operator.cls
    /\ \E k \in (DOMAIN last.config) \cap (DOMAIN last.preConfig) :
          last.config[k] # last.preConfig[k]
    /\ (DOMAIN last.preConfig) \ (DOMAIN last.config) # {}

\* C2: in every state a caller can observe between calls on a Pre/Post/RetrievalModule,
\* change_strategy calls whose operator construction raises included, the active
\* operator is the one the registry derives from the current strategy name and config.
C2_OperatorDerivedFromState ==
    mod # NoMod =>
        LET cfg == dicts[mod.config]
            lname == Lower(mod.strategy)
            cls == IF lname \in RegisteredNames(mod.family)
                   THEN ClassOfName(lname) ELSE DefaultClass(mod.family)
        IN  /\ mod.operator.cls = cls
            /\ mod.operator.attrs =
                  [k \in ReadKeys(cls) |-> IF k \in DOMAIN cfg THEN cfg[k] ELSE DefaultOf(k)]

\* C3: after GenerationModule.change_strategy(prompt_strategy, generator_type,
\* new_config) returns, the prompt operator and the generator operator are ones
\* constructed from the module's current configuration, new_config merged in.
C3_GenerationOperatorsCurrent ==
    (last.call = "gen_change_strategy" /\ ~last.raised) =>
        LET cfg == dicts[gen.config]
        IN  /\ gen.prompt_operator.attrs =
                  [k \in ReadKeys(gen.prompt_operator.cls) |->
                      IF k \in DOMAIN cfg THEN cfg[k] ELSE DefaultOf(k)]
            /\ gen.generator_operator.attrs =
                  [k \in ReadKeys(gen.generator_operator.cls) |->
                      IF k \in DOMAIN cfg THEN cfg[k] ELSE DefaultOf(k)]

\* C9 (as amended): for every string that is not a registered strategy name of its
\* family (compared case-insensitively), constructing a Pre/Post/Retrieval/Generation
\* module with it, or passing it to change_strategy, does not raise because of the
\* name (the only error is the chat client failing to open), a warning is emitted and
\* the module ends up holding the family's default operator; except that
\* GenerationModule.change_strategy treats an empty string like an omitted argument.
C9_UnknownNameFallsBack ==
    LET DefaultOperator(family) ==
            CASE family = "pre" -> "QueryRewriteOperator"
              [] family = "post" -> "RerankOperator"
              [] family = "retrieval" -> "DenseRetrieverOperator"
        Unknown(family, name) == Lower(name) \notin RegisteredNames(family)
    IN  /\ (/\ last.call = "init"
            /\ "strategy" \in DOMAIN last.config
            /\ Unknown(last.family, last.config["strategy"].s))
           => /\ last.warned
              /\ last.raised => last.clientFails
              /\ ~last.raised => mod.operator.cls = DefaultOperator(last.family)
        /\ (last.call = "change_strategy" /\ Unknown(mod.family, last.name))
           => /\ last.warned
              /\ last.raised => last.clientFails
              /\ ~last.raised => mod.operator.cls = DefaultOperator(mod.family)
        /\ (last.call = "gen_init" /\ last.raised) => last.clientFails
        /\ (/\ last.call = "gen_init"
            /\ "prompt_strategy" \in DOMAIN last.config
            /\ Unknown("prompt", last.config["prompt_strategy"].s))
           => /\ last.promptWarned
              /\ ~last.raised => gen.prompt_operator.cls = "PromptTemplateOperator"
        /\ (/\ last.call = "gen_init"
            /\ "generator" \in DOMAIN last.config
            /\ Unknown("generator", last.config["generator"].s))
           => /\ last.generatorWarned
              /\ ~last.raised => gen.generator_operator.cls = "LLMGeneratorOperator"
        /\ (last.call = "gen_change_strategy" /\ last.raised) => last.clientFails
        /\ (/\ last.call = "gen_change_strategy"
            /\ last.prompt_strategy.kind = "str"
            /\ last.prompt_strategy.s # ""
            /\ Unknown("prompt", last.prompt_strategy.s))
           => /\ last.promptWarned
              /\ gen.prompt_operator.cls = "PromptTemplateOperator"
        /\ (/\ last.call = "gen_change_strategy"
            /\ last.generator_type.kind = "str"
            /\ last.generator_type.s # ""
            /\ Unknown("generator", last.generator_type.s))
           => /\ last.generatorWarned
              /\ ~last.raised => gen.generator_operator.cls = "LLMGeneratorOperator"

\* an unknown name passed to change_strategy of a module that held another operator
C9_Witness ==
    /\ last.call = "change_strategy"
    /\ last.name = "nonesuch"
    /\ ~last.raised
    /\ last.warned
    /\ last.pre.operator.cls # mod.operator.cls

\* C9 as stated: every unregistered string, the empty string passed to
\* GenerationModule.change_strategy included, gives a warning and the default operator
C9_EveryUnregisteredString ==
    (/\ last.call = "gen_change_strategy"
     /\ last.prompt_strategy.kind = "str"
     /\ Lower(last.prompt_strategy.s) \notin RegisteredNames("prompt"))
    => /\ last.promptWarned
       /\ gen.prompt_operator.cls = "PromptTemplateOperator"

\* C10: a process call (returning or raising) and a summary call leave the module's
\* strategy name, config and active operator as they were, and what the caller gets
\* from process is what the active operator returned or raised.
C10_ProcessSummaryFrame ==
    /\ last.call \in {"process", "summary"} => (mod = last.pre /\ dicts = last.preDicts)
    /\ last.call = "gen_summary" => (gen = last.pre /\ dicts = last.preDicts)
    /\ (last.call = "process" /\ ~(mod.family = "post" /\ last.input = << >>))
       => last.outcome \in operator_call(mod.operator, last.input, last.query, AnyEnv)

\* a process call in which the active operator raised
C10_Witness ==
    /\ last.call = "process"
    /\ last.outcome.raised
    /\ mod = last.pre

----------------------------------------------------------------------------
(* Properties of the pipelines, checked under SpecPipeline *)

\* the concatenation of a sequence of sequences
RECURSIVE Concat(_)
Concat(seqs) == IF seqs = << >> THEN << >> ELSE Head(seqs) \o Concat(Tail(seqs))

\* C4: PostRetrievalPipeline.process(docs, q) that returns has called every step once,
\* in the order the steps were added, the first on docs and each later one on exactly
\* what the step before it returned, and returns what the last step returned; with no
\* steps it returns docs.
C4_PostPipelineFolds ==
    (last.call = "pipeline_process" /\ last.pre.family = "post" /\ ~last.outcome.raised)
    => LET log == last.outcome.log
           steps == last.pre.steps
           n == Len(steps)
       IN  /\ Len(log) = n
           /\ \A k \in 1..n :
                 /\ log[k].step = k
                 /\ log[k].input = IF k = 1 THEN last.input ELSE log[k - 1].outs
                 /\ Ret("list", log[k].outs)
                       \in Module_process(steps[k], log[k].input, last.query, AnyEnv)
           /\ last.outcome.out = IF n = 0 THEN last.input ELSE log[n].outs

\* a two-step post pipeline in which both steps changed the document list
C4_Witness ==
    /\ last.call = "pipeline_process"
    /\ last.pre.family = "post"
    /\ Len(last.pre.steps) = 2
    /\ ~last.outcome.raised
    /\ Len(last.input) = MaxDocLen
    /\ last.outcome.log[1].outs # last.input
    /\ last.outcome.log[2].outs # last.outcome.log[1].outs
    /\ last.outcome.out # << >>

C6_StepFailureAborts ==
    last.call = "pipeline_process"
    => LET log == last.outcome.log
           o == last.outcome
           failed == Len(log) > 0 /\ log[Len(log)].raised
       IN  /\ \A k \in 1..Len(log) : log[k].raised => k = Len(log)
           /\ failed <=> o.raised
           /\ o.raised =>
                 /\ o.out = << >>
                 /\ o.kind = ""
                 /\ LET K == log[Len(log)].step
                    IN  Raise(o.err) \in
                           Module_process(last.pre.steps[K],
                                          IF last.pre.family = "post"
                                             THEN log[Len(log)].input ELSE << >>,
                                          IF last.pre.family = "post"
                                             THEN last.query ELSE log[Len(log)].input,
                                          AnyEnv)
           /\ pipe = last.pre

\* the first of two steps raised: the second was never called
C6_Witness ==
    /\ last.call = "pipeline_process"
    /\ Len(last.pre.steps) = 2
    /\ last.outcome.raised
    /\ Len(last.outcome.log) = 1
    /\ last.outcome.log[1].step = 1

\* C7: the error process raises when step K raised carries K or the strategy name of
\* step K.
C7_ErrorIdentifiesStep ==
    (last.call = "pipeline_process" /\ last.outcome.raised)
    => LET K == last.outcome.log[Len(last.outcome.log)].step
       IN  \/ last.outcome.errStep = K
           \/ last.outcome.errName = last.pre.steps[K].strategy

\* C8: what summary() reports as steps is the names passed to the add_step calls that
\* returned since the last clear, in call order, one entry per call; process and
\* summary leave the steps alone, an add_step that raises adds nothing, clear empties
\* the list.
C8_StepsAreAddedNames ==
    /\ Pipeline_summary(pipe).steps = added
    /\ Pipeline_summary(pipe).num_steps = Len(added)
    /\ last.call \in {"pipeline_process", "pipeline_summary"} => pipe = last.pre
    /\ last.call = "pipeline_summary" => last.summary.steps = added
    /\ last.call = "clear" => Pipeline_summary(pipe).steps = << >>
    /\ last.call = "add_step" =>
          IF last.raised THEN pipe = last.pre
          ELSE Pipeline_summary(pipe).steps
                  = Append(Pipeline_summary(last.pre).steps, last.name)

\* summary() after a step was added and cleared and the same name was then added
\* twice with different configs
C8_Witness ==
    /\ last.call = "pipeline_summary"
    /\ Len(pipe.steps) = 2
    /\ pipe.steps[1].operator.id > 1
    /\ added = << "multi_query", "multi_query" >>
    /\ dicts[pipe.steps[1].config] # dicts[pipe.steps[2].config]
    /\ last.summary.steps = added

----------------------------------------------------------------------------
(* Ownership of configuration mappings, checked under SpecModule *)

\* C11: the mapping an operator was constructed from belongs to that operator alone:
\* the two operators of a GenerationModule hold different mapping objects, and the
\* entries of the mapping held by a module's active operator are still the ones the
\* operator was constructed from.
C11_OperatorOwnsConfig ==
    /\ gen # NoGen => gen.prompt_operator.config # gen.generator_operator.config
    /\ mod # NoMod =>
          mod.operator.attrs = AttrsFrom(mod.operator.cls, dicts[mod.operator.config])

----------------------------------------------------------------------------
(* One process call and one change_strategy call on the same module, run   *)
(* by two threads.  Neither method takes a lock, so the threads interleave *)
(* between the statements of the two methods.                              *)

\* Module.process, entry: the documents test of PostRetrievalModule and the printing
\* before the operator is looked up; startOp remembers the operator active now
ProcEnter(input, query) ==
    /\ threads.proc.pc = "idle"
    /\ threads' = [threads EXCEPT !.proc =
                      IF mod.family = "post" /\ input = << >>
                      THEN [pc |-> "done", input |-> input, query |-> query,
                            startOp |-> mod.operator.id, usedOp |-> 0,
                            outcome |-> Ret("list", << >>)]
                      ELSE [pc |-> "entered", input |-> input, query |-> query,
                            startOp |-> mod.operator.id, usedOp |-> 0,
                            outcome |-> Ret("list", << >>)]]
    /\ UNCHANGED <<dicts, nextOp, mod, gen, pipe, added, last, hier>>

\* Module.process: result = self.operator.process(documents, query); self.operator
\* is read when this statement runs
ProcCallOperator ==
    /\ threads.proc.pc = "entered"
    /\ \E o \in operator_call(mod.operator, threads.proc.input, threads.proc.query, AnyEnv) :
          threads' = [threads EXCEPT !.proc.pc = "done",
                                     !.proc.usedOp = mod.operator.id,
                                     !.proc.outcome = o]
    /\ UNCHANGED <<dicts, nextOp, mod, gen, pipe, added, last, hier>>

\* Module.process returns (or raises) to its thread
ProcReturn ==
    /\ threads.proc.pc = "done"
    /\ threads' = [threads EXCEPT !.proc = [pc |-> "idle"]]
    /\ last' = [call |-> "process", outcome |-> threads.proc.outcome]
    /\ UNCHANGED <<dicts, nextOp, mod, gen, pipe, added, hier>>

\* Module.change_strategy: self.strategy = new_strategy
ChgSetStrategy(new_strategy, new_config) ==
    /\ threads.chg.pc = "idle"
    /\ nextOp <= MaxOps
    /\ mod' = [mod EXCEPT !.strategy = new_strategy]
    /\ threads' = [threads EXCEPT !.chg = [pc |-> "strategy_set", config |-> new_config]]
    /\ UNCHANGED <<dicts, nextOp, gen, pipe, added, last, hier>>

\* Module.change_strategy: if new_config: self.config.update(new_config)
ChgUpdateConfig ==
    /\ threads.chg.pc = "strategy_set"
    /\ dicts' = IF threads.chg.config # EmptyDict
                THEN [dicts EXCEPT ![mod.config] = dict_update(@, threads.chg.config)]
                ELSE dicts
    /\ threads' = [threads EXCEPT !.chg.pc = "config_merged"]
    /\ UNCHANGED <<nextOp, mod, gen, pipe, added, last, hier>>

\* Module.change_strategy: self.operator = self._init_operator()
ChgInitOperator(clientFails) ==
    /\ threads.chg.pc = "config_merged"
    /\ LET r == init_operator(mod.family, mod.strategy, mod.config, dicts, nextOp,
                              clientFails)
       IN  /\ r.raised = clientFails
           /\ Len(r.dicts) <= MaxDicts
           /\ dicts' = IF r.raised THEN dicts ELSE r.dicts
           /\ nextOp' = IF r.raised THEN nextOp ELSE nextOp + 1
           /\ mod' = IF r.raised THEN mod ELSE [mod EXCEPT !.operator = r.op]
           /\ threads' = [threads EXCEPT !.chg = [pc |-> "idle"]]
    /\ UNCHANGED <<gen, pipe, added, last, hier>>

\* arguments of the concurrent change_strategy call
ConcurrentNames(family) ==
    CASE family = "pre" -> {"multi_query", "query_rewrite"}
      [] family = "post" -> {"rerank", "selection"}
      [] family = "retrieval" -> {"dense", "bm25"}

ConcurrentUpdates(family) ==
    CASE family = "pre" -> { EmptyDict, [num_queries |-> IntV(1)] }
      [] family = "post" -> { EmptyDict, [top_n |-> IntV(1)] }
      [] family = "retrieval" -> { EmptyDict, [k |-> IntV(3)] }

\* the module the two threads share, as one of the constructors leaves it
InitConcurrent ==
    /\ \E f \in Families : \E c \in {EmptyDict, [model |-> StrV("qwen-max")]} :
          LET r == Module_new(f, c, << >>, 1, FALSE)
          IN  /\ dicts = r.dicts
              /\ mod = r.mod
    /\ nextOp = 2
    /\ gen = NoGen
    /\ pipe = NoPipe
    /\ added = << >>
    /\ last = [call |-> "none"]
    /\ threads = NoThreads
    /\ hier = NoHier

NextConcurrent ==
    \/ \E q \in QueryInputs(mod.family), d \in PipelineDocInputs(mod.family) :
          ProcEnter(d, q)
    \/ ProcCallOperator
    \/ ProcReturn
    \/ \E n \in ConcurrentNames(mod.family), c \in ConcurrentUpdates(mod.family) :
          ChgSetStrategy(n, c)
    \/ ChgUpdateConfig
    \/ \E fails \in BOOLEAN : ChgInitOperator(fails)

SpecConcurrent == InitConcurrent /\ [][NextConcurrent]_vars

\* C12: a process call that was in progress while change_strategy ran has called the
\* operator that was the module's active operator when the process call started.
C12_InFlightProcessKeepsOperator ==
    (threads.proc.pc = "done" /\ threads.proc.usedOp # 0)
    => threads.proc.usedOp = threads.proc.startOp

----------------------------------------------------------------------------
(* Retrieval before build, checked under SpecModule *)

\* C13: RetrievalModule.retrieve raises unless build has completed on the operator
\* that is active when retrieve is called (an operator built by change_strategy has
\* not been built on).
C13_RetrieveNeedsBuild ==
    (/\ last.call = "process"
     /\ last.pre.family = "retrieval"
     /\ ~last.pre.operator.retriever
     /\ ~last.pre.operator.documents)
    => last.outcome.raised

----------------------------------------------------------------------------
(* Generation failures, checked under SpecModule *)

\* C14: when every chat-model request made by generate fails, generate does not raise
\* and returns an apology text that contains the message of each failure.
C14_GenerateFailureGivesMessage ==
    (last.call = "generate" /\ \A i \in DOMAIN last.replies : ~last.replies[i].ok)
    => /\ ~last.outcome.raised
       /\ \A i \in DOMAIN last.replies :
             \A k \in 1..Len(last.replies[i].text) :
                InSeq(last.replies[i].text[k], last.outcome.out)

----------------------------------------------------------------------------
(* FactCheckOperator.  A reply of the chat model is a sequence of tokens:  *)
(* "{", "}", ",", a "key:value" pair of a JSON object, or other text.      *)

\* the key and the value of a token that is a well-formed "key": value pair
PairOf(tok) ==
    CASE tok = "is_factual:false" -> [key |-> "is_factual", val |-> "false"]
      [] tok = "confidence:0.9" -> [key |-> "confidence", val |-> "0.9"]
      [] tok = "violations:[x]" -> [key |-> "violations", val |-> "[x]"]
      [] tok = "verdict:ok" -> [key |-> "verdict", val |-> "ok"]
      [] OTHER -> [key |-> "", val |-> ""]

IsPair(tok) == PairOf(tok).key # ""

\* re.search(r'\{[^}]+\}', response): the leftmost "{" that is followed by at least
\* one token other than "}" and later by a "}"; the match ends at the first such "}".
\* The result is the matched span, << >> when there is no match.
RECURSIVE json_match(_, _)
json_match(response, i) ==
    IF i > Len(response) THEN << >>
    ELSE LET closers == {j \in (i + 2)..Len(response) : response[j] = "}"}
         IN  IF /\ response[i] = "{"
                /\ i + 1 <= Len(response)
                /\ response[i + 1] # "}"
                /\ closers # {}
             THEN SubSeq(response, i, CHOOSE j \in closers : \A k \in closers : j <= k)
             ELSE json_match(response, i + 1)

\* whether json.loads accepts the span: pairs separated by commas between the braces
json_valid(span) ==
    LET inner == SubSeq(span, 2, Len(span) - 1)
    IN  /\ Len(inner) % 2 = 1
        /\ \A k \in 1..Len(inner) :
              IF k % 2 = 1 THEN IsPair(inner[k]) ELSE inner[k] = ","

\* json.loads(span) for an accepted span: the object, a later pair replacing an
\* earlier one with the same key
json_loads(span) ==
    LET inner == SubSeq(span, 2, Len(span) - 1)
        pairs == {k \in 1..Len(inner) : k % 2 = 1}
        keys == {PairOf(inner[k]).key : k \in pairs}
    IN  [key \in keys |->
            LET k == CHOOSE k \in pairs :
                        /\ PairOf(inner[k]).key = key
                        /\ \A m \in pairs : PairOf(inner[m]).key = key => m <= k
            IN  PairOf(inner[k]).val]

\* the record of the early return and of the except branch of execute
FactCheckDefault == [is_factual |-> "true", confidence |-> "0.5", violations |-> "[]"]

\* the record at the end of _parse_response
FactCheckParseDefault == [is_factual |-> "true", confidence |-> "0.7", violations |-> "[]"]

\* FactCheckOperator._parse_response
parse_response(response) ==
    LET span == json_match(response, 1)
    IN  IF span # << >> /\ json_valid(span) THEN json_loads(span)
        ELSE FactCheckParseDefault

\* FactCheckOperator.execute: hasLLM says whether _init_llm gave a client, context is
\* the document list, reply is what llm.invoke does
FactCheckOperator_execute(hasLLM, context, reply) ==
    IF ~hasLLM \/ context = << >> THEN FactCheckDefault
    ELSE IF ~reply.ok THEN FactCheckDefault
    ELSE parse_response(reply.text)

\* what llm.invoke may do for a fact-check prompt
FactCheckReplies ==
    { [ok |-> FALSE, text |-> << "timeout" >>],
      [ok |-> TRUE, text |-> << "{", "is_factual:false", ",", "confidence:0.9", ",",
                                "violations:[x]", "}" >>],
      [ok |-> TRUE, text |-> << "sure", "{", "is_factual:false", ",", "confidence:0.9",
                                ",", "violations:[x]", "}", "bye" >>],
      [ok |-> TRUE, text |-> << "{", "}", "{", "confidence:0.9", ",", "confidence:0.9",
                                "}" >>],
      [ok |-> TRUE, text |-> << "supported" >>],
      [ok |-> TRUE, text |-> << "{", "is_factual:false", "confidence:0.9", "}" >>],
      [ok |-> TRUE, text |-> << "{", "{", "verdict:ok", "}", "}" >>],
      [ok |-> TRUE, text |-> << "{", "verdict:ok", "}" >>] }

----------------------------------------------------------------------------
(* Calls on stand-alone operators: the arguments are drawn from small sets *)
(* and `last` records the call and what it returned.                       *)

\* the context argument of FactCheckOperator.execute
FactCheckContexts == { << >>, << 1 >> }

\* the lists handed to RerankOperator._reorder_for_llm: all lists over two documents,
\* and the lists of distinct documents
ReorderInputs ==
    UNION {[1..n -> 1..2] : n \in 0..MaxReorderLen}
    \cup {[i \in 1..n |-> i] : n \in 0..MaxReorderLen}

\* FactCheckOperator(config).execute(query, context, answer=answer)
CallFactCheck(hasLLM, context, reply) ==
    /\ last' = [call |-> "fact_check", hasLLM |-> hasLLM, context |-> context,
                reply |-> reply,
                result |-> FactCheckOperator_execute(hasLLM, context, reply)]
    /\ UNCHANGED <<dicts, nextOp, mod, gen, pipe, added, threads, hier>>

\* RerankOperator()._reorder_for_llm(documents)
CallReorder(documents) ==
    /\ last' = [call |-> "reorder", input |-> documents,
                result |-> reorder_for_llm(documents)]
    /\ UNCHANGED <<dicts, nextOp, mod, gen, pipe, added, threads, hier>>

----------------------------------------------------------------------------
(* AdaptiveGeneratorOperator.  A Python float near k/10 is the pair of k and *)
(* its place relative to the double the literal k/10 denotes: e = 0 that     *)
(* double, e = 1 the next double above, e = -1 the next double below.        *)

\* the float literal k/10 (0.1, 0.2, 0.3, 0.6, 1.0, ...)
Float(k) == [t |-> k, e |-> 0]

\* x + Float(k) in IEEE double arithmetic, for the sums _assess_complexity forms:
\* 0.2 + 0.1 and 0.1 + 0.2 are 0.30000000000000004, 0.6 + 0.3 is 0.8999999999999999,
\* 0.30000000000000004 + 0.3 is 0.6000000000000001, the other sums are the literals
FloatAdd(x, k) ==
    CASE x = Float(2) /\ k = 1 -> [t |-> 3, e |-> 1]
      [] x = Float(1) /\ k = 2 -> [t |-> 3, e |-> 1]
      [] x = Float(6) /\ k = 3 -> [t |-> 9, e |-> -1]
      [] x = [t |-> 3, e |-> 1] /\ k = 3 -> [t |-> 6, e |-> 1]
      [] OTHER -> [t |-> x.t + k, e |-> x.e]

\* x >= y
FloatGE(x, y) == x.t > y.t \/ (x.t = y.t /\ x.e >= y.e)

\* min(x, y)
FloatMin(x, y) == IF FloatGE(x, y) THEN y ELSE x

\* complex_keywords: "bijiao", ... stand for the seven Chinese words of the list
\* (compare, analyse, evaluate, synthesise, detailed, explain, why)
complex_keywords ==
    {"bijiao", "fenxi", "pinggu", "zonghe", "xiangxi", "jieshi", "weishenme"}

LongQueryLen == 100
MediumQueryLen == 50
ManyContexts == 5
SomeContexts == 2

\* AdaptiveGeneratorOperator._assess_complexity; a query is its length and the words
\* that occur in it, context is the number of documents (0 for None or [])
assess_complexity(query, context) ==
    LET c0 == Float(0)
        c1 == IF query.len > LongQueryLen THEN FloatAdd(c0, 3)
              ELSE IF query.len > MediumQueryLen THEN FloatAdd(c0, 2)
              ELSE FloatAdd(c0, 1)
        c2 == IF context > ManyContexts THEN FloatAdd(c1, 3)
              ELSE IF context > SomeContexts THEN FloatAdd(c1, 2)
              ELSE FloatAdd(c1, 1)
        c3 == IF query.words \cap complex_keywords # {} THEN FloatAdd(c2, 3) ELSE c2
    IN  FloatMin(c3, Float(10))

\* AdaptiveGeneratorOperator.execute: the model asked, and the answer or the apology
AdaptiveGeneratorOperator_execute(threshold, query, context, reply) ==
    LET complexity == assess_complexity(query, context)
    IN  [complexity |-> complexity,
         llm |-> IF FloatGE(complexity, threshold) THEN "complex_llm" ELSE "simple_llm",
         answer |-> IF reply.ok THEN Strip(reply.text) ELSE << ErrorApology >> \o reply.text]

\* the replies of the chat model asked: an answer, or the request raises
AdaptiveReplies ==
    { [ok |-> TRUE, text |-> << " ", "a" >>], [ok |-> FALSE, text |-> << "timeout" >>] }

\* queries: a length and the words among "compare" and the keyword "bijiao" in it
AdaptiveQueries ==
    [len : {10, 50, 51, 100, 101, 120}, words : {{}, {"compare"}, {"bijiao"}}]

\* the number of context documents
AdaptiveContexts == {0, 2, 3, 5, 6}

\* complexity_threshold: the default 0.6, and 0.3 and 0.9
AdaptiveThresholds == {Float(3), Float(6), Float(9)}

\* AdaptiveGeneratorOperator({"complexity_threshold": threshold}).execute(query, context)
CallAdaptive(threshold, query, context, reply) ==
    /\ last' = [call |-> "adaptive", threshold |-> threshold, query |-> query,
                context |-> context, reply |-> reply,
                result |-> AdaptiveGeneratorOperator_execute(threshold, query, context, reply)]
    /\ UNCHANGED <<dicts, nextOp, mod, gen, pipe, added, threads, hier>>

\* str.lower() on the characters of the similarity texts
LowerChar(c) == CASE c = "A" -> "a" [] c = "B" -> "b" [] OTHER -> c
str_lower(text) == [i \in 1..Len(text) |-> LowerChar(text[i])]

\* set(text.lower().split()): the maximal runs of characters that are not whitespace
word_set(text) ==
    LET t == str_lower(text)
    IN  { SubSeq(t, i, j) : <<i, j>> \in
            { p \in (1..Len(t)) \X (1..Len(t)) :
                /\ p[1] <= p[2]
                /\ \A k \in p[1]..p[2] : ~IsSpace(t[k])
                /\ (p[1] = 1 \/ IsSpace(t[p[1] - 1]))
                /\ (p[2] = Len(t) \/ IsSpace(t[p[2] + 1])) } }

\* the float zero and the quotient of two integers, kept as numerator and denominator
Quotient(a, b) == [num |-> a, den |-> b]

\* _simple_similarity dividing by the number of words of text1
simple_similarity_by_first(text1, text2) ==
    LET words1 == word_set(text1)
        words2 == word_set(text2)
        intersection == Cardinality(words1 \cap words2)
        union == Cardinality(words1)
    IN  IF words1 = {} \/ words2 = {} THEN Quotient(0, 1)
        ELSE IF union > 0 THEN Quotient(intersection, union) ELSE Quotient(0, 1)

\* DiversityRerankOperator._simple_similarity
simple_similarity(text1, text2) ==
    LET words1 == word_set(text1)
        words2 == word_set(text2)
        intersection == Cardinality(words1 \cap words2)
        union == Cardinality(words1 \cup words2)
    IN  IF words1 = {} \/ words2 = {} THEN Quotient(0, 1)
        ELSE IF union > 0 THEN Quotient(intersection, union) ELSE Quotient(0, 1)

\* RedundancyFilterOperator._calculate_similarity
calculate_similarity(text1, text2) ==
    LET words1 == word_set(text1)
        words2 == word_set(text2)
        intersection == Cardinality(words1 \cap words2)
        union == Cardinality(words1 \cup words2)
    IN  IF words1 = {} \/ words2 = {} THEN Quotient(0, 1)
        ELSE IF union > 0 THEN Quotient(intersection, union) ELSE Quotient(0, 1)

\* the texts compared: up to MaxTextLen characters
SimilarityTexts == UNION {[1..n -> {"a", "A", "b", " "}] : n \in 0..MaxTextLen}

\* DiversityRerankOperator()._simple_similarity(text1, text2), both ways round
CallSimpleSimilarity(text1, text2) ==
    /\ last.call = "texts"
    /\ last' = [call |-> "simple_similarity", text1 |-> text1, text2 |-> text2,
                result |-> simple_similarity(text1, text2),
                swapped |-> simple_similarity(text2, text1)]
    /\ UNCHANGED <<dicts, nextOp, mod, gen, pipe, added, threads, hier>>

\* RedundancyFilterOperator()._calculate_similarity(text1, text2), both ways round
CallCalculateSimilarity(text1, text2) ==
    /\ last.call = "texts"
    /\ last' = [call |-> "calculate_similarity", text1 |-> text1, text2 |-> text2,
                result |-> calculate_similarity(text1, text2),
                swapped |-> calculate_similarity(text2, text1)]
    /\ UNCHANGED <<dicts, nextOp, mod, gen, pipe, added, threads, hier>>

\* the pre-ranked documents d1..dn of the rerank scenario
RankedLists == { [i \in 1..n |-> i] : n \in 0..MaxReorderLen }

\* PostRetrievalModule({"strategy": "rerank", "top_n": top_n}).process(documents)
CallRerankModule(top_n, documents) ==
    /\ LET config == [strategy |-> StrV("rerank"), top_n |-> IntV(top_n)]
           r == Module_new("post", config, << >>, 1, FALSE)
       IN  \E o \in Module_process(r.mod, documents, << >>, AnyEnv) :
              last' = [call |-> "rerank_module", top_n |-> top_n, input |-> documents,
                       cls |-> r.mod.operator.cls, outcome |-> o]
    /\ UNCHANGED <<dicts, nextOp, mod, gen, pipe, added, threads, hier>>

\* RelevanceFilterOperator({"min_docs": min_docs}).process(documents, "q"), where
\* _check_relevance returns True for exactly the documents in relevant
CallRelevanceFilter(min_docs, documents, relevant) ==
    /\ LET r == new_operator("RelevanceFilterOperator", 1,
                             << [min_docs |-> IntV(min_docs)] >>, 1, FALSE)
           env == [AnyEnv EXCEPT !.relevant = {relevant}]
       IN  \E o \in RelevanceFilterOperator_process(r.op, documents, << "q" >>, env) :
              last' = [call |-> "relevance_filter", min_docs |-> min_docs,
                       input |-> documents, relevant |-> relevant, outcome |-> o]
    /\ UNCHANGED <<dicts, nextOp, mod, gen, pipe, added, threads, hier>>

\* MultiQueryOperator({"num_queries": num_queries}).execute("q") with the chat model
\* answering reply
CallMultiQuery(num_queries, reply) ==
    /\ LET r == new_operator("MultiQueryOperator", 1,
                             << [num_queries |-> IntV(num_queries)] >>, 1, FALSE)
           env == [AnyEnv EXCEPT !.multi = {reply}, !.fails = FALSE]
       IN  \E o \in MultiQueryOperator_execute(r.op, << "q" >>, env) :
              last' = [call |-> "multi_query", num_queries |-> num_queries,
                       query |-> << "q" >>, reply |-> reply, outcome |-> o]
    /\ UNCHANGED <<dicts, nextOp, mod, gen, pipe, added, threads, hier>>

InitOperators ==
    /\ dicts = << >>
    /\ nextOp = 1
    /\ mod = NoMod
    /\ gen = NoGen
    /\ pipe = NoPipe
    /\ added = << >>
    /\ last = [call |-> "none"]
    /\ threads = NoThreads
    /\ hier = NoHier

NextOperators ==
    \/ \E hasLLM \in BOOLEAN, context \in FactCheckContexts, reply \in FactCheckReplies :
          CallFactCheck(hasLLM, context, reply)
    \/ \E documents \in ReorderInputs : CallReorder(documents)
    \/ \E top_n \in 1..MaxTopN, documents \in RankedLists : CallRerankModule(top_n, documents)
    \/ \E min_docs \in 0..MaxTopN, documents \in DocLists, relevant \in AnyEnv.relevant :
          CallRelevanceFilter(min_docs, documents, relevant)
    \/ \E num_queries \in 0..MaxTopN, reply \in MultiQueryReplies :
          CallMultiQuery(num_queries, reply)
    \/ \E threshold \in AdaptiveThresholds, query \in AdaptiveQueries :
          \E context \in AdaptiveContexts, reply \in AdaptiveReplies :
             CallAdaptive(threshold, query, context, reply)

SpecOperators == InitOperators /\ [][NextOperators]_vars

\* C15: FactCheckOperator.execute always returns a record with exactly the keys
\* is_factual, confidence and violations, and when the request fails or the reply
\* holds no JSON object that can be parsed, the record is the neutral default
\* (is_factual true, confidence 0.5, no violations).
C15_FactCheckNeutralDefault ==
    last.call = "fact_check"
    => /\ DOMAIN last.result = {"is_factual", "confidence", "violations"}
       /\ (\/ ~last.reply.ok
           \/ json_match(last.reply.text, 1) = << >>
           \/ ~json_valid(json_match(last.reply.text, 1)))
          => last.result = FactCheckDefault

\* the number of positions of xs that hold x
Count(xs, x) == Cardinality({i \in 1..Len(xs) : xs[i] = x})

\* C20: _reorder_for_llm returns a permutation of its input; a list of at most two
\* items is returned as it is; a list of n >= 3 items becomes
\* high[:h] + mid + low + high[h:], with high the first n // 3 items, mid the items
\* from n // 3 up to 2n // 3, low the rest and h = len(high) // 2; so [1,2,3,4,5,6]
\* becomes [1,3,4,5,6,2].
C20_ReorderIsPermutation ==
    last.call = "reorder"
    => LET xs == last.input
           n == Len(xs)
           a == n \div 3
           b == (2 * n) \div 3
           h == a \div 2
           piece(lo, hi) == [i \in 1..(hi - lo) |-> xs[lo + i]]
       IN  /\ Len(last.result) = n
           /\ \A x \in 1..MaxReorderLen : Count(last.result, x) = Count(xs, x)
           /\ n <= 2 => last.result = xs
           /\ n >= 3 => last.result = piece(0, h) \o piece(a, b) \o piece(b, n) \o piece(h, a)
           /\ xs = << 1, 2, 3, 4, 5, 6 >> => last.result = << 1, 3, 4, 5, 6, 2 >>

\* the six-item example
C20_Witness ==
    /\ last.call = "reorder"
    /\ last.input = << 1, 2, 3, 4, 5, 6 >>
    /\ last.result = << 1, 3, 4, 5, 6, 2 >>

----------------------------------------------------------------------------
(* HierarchicalIndexStrategy: node ids are the tuples of indexes of        *)
(* "doc_{d}", "doc_{d}_sec_{s}" and "doc_{d}_sec_{s}_chunk_{c}"            *)

MinSectionLen == 500
DefaultChunkSize == 1000
DocSummaryLen == 200
SectionSummaryLen == 100

Rep(c, n) == [i \in 1..n |-> c]

\* the ideographic full stop U+3002, one character
FullStop == "U+3002"

\* s.rfind(pat): the last 0-based position where pat starts, -1 when there is none
RFind(s, pat) ==
    LET P == {i \in 1..(Len(s) - Len(pat) + 1) : SubSeq(s, i, i + Len(pat) - 1) = pat}
    IN  IF P = {} THEN -1 ELSE (CHOOSE i \in P : \A j \in P : j <= i) - 1

MaxOf(S) == CHOOSE x \in S : \A y \in S : y <= x

\* HierarchicalIndexStrategy._generate_summary
generate_summary(text0, max_length) ==
    LET text == Strip(text0)
        summary == SubSeq(text, 1, max_length)
        last_period == MaxOf({RFind(summary, << FullStop >>), RFind(summary, << ".", " " >>),
                              RFind(summary, << "!", " " >>), RFind(summary, << "?", " " >>)})
    IN  IF Len(text) <= max_length THEN text
        ELSE IF 2 * last_period > max_length THEN SubSeq(summary, 1, last_period + 1)
        ELSE summary \o << ".", ".", "." >>

\* text.split("\n\n")
RECURSIVE split_blank_lines(_)
split_blank_lines(text) ==
    LET P == {i \in 1..(Len(text) - 1) : text[i] = "\n" /\ text[i + 1] = "\n"}
        i == CHOOSE k \in P : \A j \in P : k <= j
    IN  IF P = {} THEN << text >>
        ELSE << SubSeq(text, 1, i - 1) >> \o split_blank_lines(SubSeq(text, i + 2, Len(text)))

\* the merging loop of _split_into_sections: the sections collected so far and the
\* section being filled
RECURSIVE merge_sections(_, _, _)
merge_sections(sections, merged_sections, current_section) ==
    IF sections = << >>
    THEN IF current_section # << >> THEN Append(merged_sections, current_section)
         ELSE merged_sections
    ELSE LET section == Head(sections)
         IN  IF Len(current_section) + Len(section) < MinSectionLen
             THEN merge_sections(Tail(sections), merged_sections,
                                 IF current_section # << >>
                                 THEN current_section \o << "\n", "\n" >> \o section
                                 ELSE section)
             ELSE merge_sections(Tail(sections),
                                 IF current_section # << >>
                                 THEN Append(merged_sections, current_section)
                                 ELSE merged_sections,
                                 section)

\* HierarchicalIndexStrategy._split_into_sections
split_into_sections(text) ==
    LET sections == StrippedNonEmpty(split_blank_lines(text))
        merged_sections == merge_sections(sections, << >>, << >>)
    IN  IF sections = << >> THEN << text >>
        ELSE IF merged_sections # << >> THEN merged_sections ELSE << text >>

\* HierarchicalIndexStrategy._split_into_chunks, for chunk_size > 0
split_into_chunks(text, chunk_size) ==
    LET n == (Len(text) + chunk_size - 1) \div chunk_size
        window(k) == SubSeq(text, (k - 1) * chunk_size + 1,
                            IF k * chunk_size < Len(text) THEN k * chunk_size ELSE Len(text))
        keep(chunk) == Strip(chunk) # << >>
        chunks == SelectSeq([k \in 1..n |-> window(k)], keep)
    IN  IF chunks # << >> THEN chunks ELSE << text >>

\* parent_id=None
NoParent == << >>

\* HierarchicalNode(content, level, node_id, parent_id, metadata), then set_summary and
\* add_child for each child
HierarchicalNode(content, level, node_id, parent_id, metadata, summary, children_ids) ==
    [content |-> content, level |-> level, node_id |-> node_id, parent_id |-> parent_id,
     children_ids |-> children_ids, metadata |-> metadata, summary |-> summary]

\* HierarchicalNode.to_document
to_document(node) ==
    [page_content |-> IF node.summary # << >>
                      THEN << "summary: " >> \o node.summary \o << "\n\ncontent: " >> \o node.content
                      ELSE node.content,
     metadata |-> [source |-> node.metadata.source, node_id |-> node.node_id,
                   parent_id |-> node.parent_id, level |-> node.level,
                   children_ids |-> node.children_ids, summary |-> node.summary,
                   hierarchical |-> TRUE]]

\* xss[1] + xss[2] + ...
RECURSIVE Flatten(_)
Flatten(xss) == IF xss = << >> THEN << >> ELSE Head(xss) \o Flatten(Tail(xss))

\* sections and chunks of the documents, 0-based as enumerate() counts them
SectionsOf(documents, d) == split_into_sections(documents[d + 1].page_content)
ChunksOf(documents, chunk_size, d, s) == split_into_chunks(SectionsOf(documents, d)[s + 1], chunk_size)

\* the ids f"doc_{d}_sec_{s}_chunk_{c}" of the chunks of one section
ChunkIds(documents, chunk_size, d, s) ==
    [c \in 1..Len(ChunksOf(documents, chunk_size, d, s)) |-> << d, s, c - 1 >>]

\* the ids f"doc_{d}_sec_{s}" of the sections of one document
SectionIds(documents, d) == [s \in 1..Len(SectionsOf(documents, d)) |-> << d, s - 1 >>]

\* the node that build_hierarchy stores under node_id, with its children added
BuiltNode(documents, chunk_size, node_id) ==
    LET d == node_id[1]
        doc == documents[d + 1]
    IN  CASE Len(node_id) = 1 ->
               HierarchicalNode(doc.page_content, 0, node_id, NoParent, doc.metadata,
                                generate_summary(doc.page_content, DocSummaryLen),
                                SectionIds(documents, d))
          [] Len(node_id) = 2 ->
               LET section_content == SectionsOf(documents, d)[node_id[2] + 1]
               IN  HierarchicalNode(section_content, 1, node_id, << d >>, doc.metadata,
                                    generate_summary(section_content, SectionSummaryLen),
                                    ChunkIds(documents, chunk_size, d, node_id[2]))
          [] Len(node_id) = 3 ->
               HierarchicalNode(ChunksOf(documents, chunk_size, d, node_id[2])[node_id[3] + 1],
                                2, node_id, << d, node_id[2] >>, doc.metadata, << >>, << >>)

\* the ids in the order in which build_hierarchy stores their nodes in self.nodes
SectionCreated(documents, chunk_size, d, s) ==
    << << d, s >> >> \o ChunkIds(documents, chunk_size, d, s)
DocCreated(documents, chunk_size, d) ==
    << << d >> >> \o Flatten([s \in 1..Len(SectionsOf(documents, d)) |->
                                SectionCreated(documents, chunk_size, d, s - 1)])
CreatedIds(documents, chunk_size) ==
    Flatten([d \in 1..Len(documents) |-> DocCreated(documents, chunk_size, d - 1)])

\* the ids with a section put after the document and before its own chunks
SectionEmitted_first(documents, chunk_size, d, s) ==
    << << d, s >> >> \o ChunkIds(documents, chunk_size, d, s)

\* the ids in the order in which build_hierarchy appends to hierarchical_docs
SectionEmitted(documents, chunk_size, d, s) ==
    ChunkIds(documents, chunk_size, d, s) \o << << d, s >> >>
DocEmitted(documents, chunk_size, d) ==
    Flatten([s \in 1..Len(SectionsOf(documents, d)) |->
               SectionEmitted(documents, chunk_size, d, s - 1)]) \o << << d >> >>
EmittedIds(documents, chunk_size) ==
    Flatten([d \in 1..Len(documents) |-> DocEmitted(documents, chunk_size, d - 1)])

SeqToSet(xs) == {xs[i] : i \in 1..Len(xs)}

\* HierarchicalIndexStrategy(config)
Hierarchy_new ==
    [exists |-> TRUE, nodes |-> << >>, order |-> << >>, root_nodes |-> << >>, builds |-> 0]

\* build_hierarchy with every chunk added to the document node
build_hierarchy_flat(h, documents, chunk_size) ==
    LET created == CreatedIds(documents, chunk_size)
        ids == SeqToSet(created)
        isNew(id) == id \notin DOMAIN h.nodes
        built(id) ==
            LET node == BuiltNode(documents, chunk_size, id)
            IN  IF Len(id) = 3 THEN [node EXCEPT !.parent_id = << id[1] >>] ELSE node
    IN  [exists |-> TRUE,
         nodes |-> [id \in DOMAIN h.nodes \cup ids |->
                      IF id \in ids THEN built(id) ELSE h.nodes[id]],
         order |-> h.order \o SelectSeq(created, isNew),
         root_nodes |-> h.root_nodes \o [d \in 1..Len(documents) |-> << d - 1 >>],
         builds |-> h.builds + 1]

\* the strategy after build_hierarchy(documents, chunk_size): self.nodes is a dict, so
\* a key stored again keeps its place in `order` and gets the new node
build_hierarchy(h, documents, chunk_size) ==
    LET created == CreatedIds(documents, chunk_size)
        ids == SeqToSet(created)
        isNew(id) == id \notin DOMAIN h.nodes
    IN  [exists |-> TRUE,
         nodes |-> [id \in DOMAIN h.nodes \cup ids |->
                      IF id \in ids THEN BuiltNode(documents, chunk_size, id) ELSE h.nodes[id]],
         order |-> h.order \o SelectSeq(created, isNew),
         root_nodes |-> h.root_nodes \o [d \in 1..Len(documents) |-> << d - 1 >>],
         builds |-> h.builds + 1]

\* the list build_hierarchy returns
hierarchical_docs(documents, chunk_size) ==
    LET emitted == EmittedIds(documents, chunk_size)
    IN  [i \in 1..Len(emitted) |-> to_document(BuiltNode(documents, chunk_size, emitted[i]))]

Doc(text) == [page_content |-> text, metadata |-> [source |-> "kb"]]

TextEmpty == << >>
TextBlank == << " ", "\n" >>
TextShort == << "a", "b", "\n", "\n", "c" >>
TextOdd == << "a", "\n", "\n", "\n", "b", " " >>
TextGap == << "a", "b", " ", " ", "\n", " ", "c", "." >>
TextTwo == Rep("a", 10) \o << "\n", "\n" >> \o Rep("b", 495)
TextLong == Rep("c", 500) \o << "\n", "\n", "d", "." >>
TextThree == Rep("a", 300) \o << "\n", "\n" >> \o Rep("b", 198) \o << "\n", "\n" >> \o Rep("c", 10)

\* the arguments of build_hierarchy
HierInputs ==
    { [documents |-> << >>, chunk_size |-> DefaultChunkSize],
      [documents |-> << Doc(TextEmpty) >>, chunk_size |-> DefaultChunkSize],
      [documents |-> << Doc(TextBlank) >>, chunk_size |-> 2],
      [documents |-> << Doc(TextShort) >>, chunk_size |-> 2],
      [documents |-> << Doc(TextShort) >>, chunk_size |-> DefaultChunkSize],
      [documents |-> << Doc(TextOdd), Doc(TextGap) >>, chunk_size |-> 2],
      [documents |-> << Doc(TextGap) >>, chunk_size |-> DefaultChunkSize],
      [documents |-> << Doc(TextTwo) >>, chunk_size |-> 200],
      [documents |-> << Doc(TextLong), Doc(TextShort) >>, chunk_size |-> DefaultChunkSize],
      [documents |-> << Doc(TextThree) >>, chunk_size |-> 200],
      [documents |-> << Doc(TextShort), Doc(TextEmpty) >>, chunk_size |-> DefaultChunkSize],
      [documents |-> << Doc(TextShort), Doc(TextOdd), Doc(TextShort) >>, chunk_size |-> 2] }

\* strategy = HierarchicalIndexStrategy()
CallHierInit ==
    /\ hier' = Hierarchy_new
    /\ last' = [call |-> "init"]
    /\ UNCHANGED <<dicts, nextOp, mod, gen, pipe, added, threads>>

\* strategy.build_hierarchy(documents, chunk_size)
CallBuildHierarchy(documents, chunk_size) ==
    /\ hier.exists
    /\ hier.builds < MaxBuilds
    /\ hier' = build_hierarchy(hier, documents, chunk_size)
    /\ last' = [call |-> "build_hierarchy", documents |-> documents, chunk_size |-> chunk_size,
                result |-> hierarchical_docs(documents, chunk_size)]
    /\ UNCHANGED <<dicts, nextOp, mod, gen, pipe, added, threads>>

InitHierarchy ==
    /\ dicts = << >>
    /\ nextOp = 1
    /\ mod = NoMod
    /\ gen = NoGen
    /\ pipe = NoPipe
    /\ added = << >>
    /\ last = [call |-> "none"]
    /\ threads = NoThreads
    /\ hier = NoHier

NextHierarchy ==
    \/ CallHierInit
    \/ \E in \in HierInputs : CallBuildHierarchy(in.documents, in.chunk_size)

SpecHierarchy == InitHierarchy /\ [][NextHierarchy]_vars

\* position of x in xs, 0 when it is not there
PosIn(xs, x) == IF InSeq(x, xs) THEN CHOOSE i \in 1..Len(xs) : xs[i] = x ELSE 0

\* C16: after one build_hierarchy call on a new strategy, every node with a parent is
\* exactly once among its parent's children, every child id names a stored node whose
\* parent is that node and which was stored after it, and there is exactly one
\* level-0 node per input document.
C16_TreeAfterOneBuild ==
    (last.call = "build_hierarchy" /\ hier.builds = 1)
    => LET nodes == hier.nodes
       IN  /\ \A id \in DOMAIN nodes :
                nodes[id].parent_id # NoParent
                => /\ nodes[id].parent_id \in DOMAIN nodes
                   /\ Count(nodes[nodes[id].parent_id].children_ids, id) = 1
           /\ \A id \in DOMAIN nodes :
                \A i \in 1..Len(nodes[id].children_ids) :
                   LET child == nodes[id].children_ids[i]
                   IN  /\ child \in DOMAIN nodes
                       /\ nodes[child].parent_id = id
                       /\ PosIn(hier.order, child) > PosIn(hier.order, id)
           /\ Cardinality({id \in DOMAIN nodes : nodes[id].level = 0}) = Len(last.documents)
           /\ \A d \in 1..Len(last.documents) :
                /\ << d - 1 >> \in DOMAIN nodes
                /\ nodes[<< d - 1 >>].level = 0
                /\ nodes[<< d - 1 >>].content = last.documents[d].page_content
           /\ Len(hier.root_nodes) = Len(last.documents)

\* one build of two documents, one of them with two sections of several chunks
C16_Witness ==
    /\ last.call = "build_hierarchy"
    /\ hier.builds = 1
    /\ Len(last.documents) = 2
    /\ \E id \in DOMAIN hier.nodes :
          /\ hier.nodes[id].level = 0
          /\ Len(hier.nodes[id].children_ids) >= 2
          /\ \A i \in 1..Len(hier.nodes[id].children_ids) :
                Len(hier.nodes[hier.nodes[id].children_ids[i]].children_ids) >= 1

\* C17: every level-2 chunk that build_hierarchy emits has non-empty content, also for
\* a document whose content is empty or only whitespace, and a section shorter than
\* chunk_size yields exactly one chunk.
C17_NoEmptyChunk ==
    last.call = "build_hierarchy"
    => /\ \A i \in 1..Len(last.result) :
             last.result[i].metadata.level = 2
             => hier.nodes[last.result[i].metadata.node_id].content # << >>
       /\ \A i \in 1..Len(last.result) :
             (/\ last.result[i].metadata.level = 1
              /\ Len(hier.nodes[last.result[i].metadata.node_id].content) < last.chunk_size)
             => Len(last.result[i].metadata.children_ids) = 1

\* C18: every section that _split_into_sections returns, except possibly the last one
\* of the document, has at least 500 characters.
C18_SectionsReachMinimum ==
    last.call = "build_hierarchy"
    => \A d \in 1..Len(last.documents) :
          LET sections == split_into_sections(last.documents[d].page_content)
          IN  \A s \in 1..(Len(sections) - 1) : Len(sections[s]) >= MinSectionLen

\* C19: in the list build_hierarchy returns the input documents come in input order,
\* the Documents of a section's chunks come in chunk order before the section's
\* Document, and all section Documents of an input document come before its
\* document-level Document.
C19_ChildrenBeforeParents ==
    last.call = "build_hierarchy"
    => LET ids == [i \in 1..Len(last.result) |-> last.result[i].metadata.node_id]
       IN  /\ \A i, j \in 1..Len(ids) : ids[i] = ids[j] => i = j
           /\ \A i, j \in 1..Len(ids) : (i < j) => ids[i][1] <= ids[j][1]
           /\ \A i \in 1..Len(ids) :
                last.result[i].metadata.parent_id # NoParent
                => PosIn(ids, last.result[i].metadata.parent_id) > i
           /\ \A i \in 1..Len(ids) :
                \A k \in 1..Len(last.result[i].metadata.children_ids) :
                   LET p == PosIn(ids, last.result[i].metadata.children_ids[k])
                   IN  /\ p > 0
                       /\ p < i
                       /\ k > 1 => PosIn(ids, last.result[i].metadata.children_ids[k - 1]) < p
           /\ \A d \in 1..Len(last.documents) : InSeq(<< d - 1 >>, ids)

\* a returned list with a section of several chunks and a document of several sections
C19_Witness ==
    /\ last.call = "build_hierarchy"
    /\ \E i, j \in 1..Len(last.result) :
          /\ last.result[i].metadata.level = 1
          /\ Len(last.result[i].metadata.children_ids) >= 2
          /\ last.result[j].metadata.level = 0
          /\ Len(last.result[j].metadata.children_ids) >= 2
          /\ last.result[i].metadata.parent_id = last.result[j].metadata.node_id
          /\ i < j

\* C21: for a relevance-sorted list of n >= 3 documents (document i is the i-th most
\* relevant) the first and the last item of the reordered list both come from the top
\* third (the first n // 3 documents), and no top-third document lies strictly between
\* documents of lower relevance.
C21_TopThirdAtBothEnds ==
    (last.call = "reorder" /\ Len(last.input) >= 3
     /\ last.input = [i \in 1..Len(last.input) |-> i])
    => LET n == Len(last.input)
           top(x) == x <= n \div 3
       IN  /\ top(last.result[1])
           /\ top(last.result[n])
           /\ \A i, j, k \in 1..n :
                (i < j /\ j < k /\ ~top(last.result[i]) /\ ~top(last.result[k]))
                => ~top(last.result[j])

Min(a, b) == IF a < b THEN a ELSE b

\* C22: a PostRetrievalModule built with strategy "rerank" and top_n = t >= 1, applied
\* to n documents, returns exactly min(t, n) documents, the first min(t, n) items of the
\* reordered list; for d1..d6 and top_n = 2 it returns [d1, d3].
C22_RerankKeepsTopOfReordered ==
    last.call = "rerank_module"
    => LET n == Len(last.input)
           k == Min(last.top_n, n)
       IN  /\ last.cls = "RerankOperator"
           /\ ~last.outcome.raised
           /\ Len(last.outcome.out) = k
           /\ last.outcome.out = SubSeq(reorder_for_llm(last.input), 1, k)
           /\ (n = 6 /\ last.top_n = 2) => last.outcome.out = << 1, 3 >>

\* six documents, top_n = 2: the second document returned is d3, not d2
C22_Witness ==
    /\ last.call = "rerank_module"
    /\ last.input = << 1, 2, 3, 4, 5, 6 >>
    /\ last.top_n = 2
    /\ last.outcome.out = << 1, 3 >>

\* C23: the complexity score is (3 tenths for a query longer than 100 characters, 2 for
\* longer than 50, else 1) + (3 tenths for more than 5 context documents, 2 for more
\* than 2, else 1) + (3 tenths for a complexity keyword), capped at 1.0, and the complex
\* model is used exactly when that score reaches complexity_threshold; so a query of
\* 120 characters containing "compare" with 6 documents goes to the complex model at
\* threshold 0.6.
C23_ComplexIffScoreReachesThreshold ==
    last.call = "adaptive"
    => LET q == last.query
           tenths == (IF q.len > 100 THEN 3 ELSE IF q.len > 50 THEN 2 ELSE 1)
                     + (IF last.context > 5 THEN 3 ELSE IF last.context > 2 THEN 2 ELSE 1)
                     + (IF q.words \cap complex_keywords # {} THEN 3 ELSE 0)
           score == Min(tenths, 10)
       IN  /\ (last.result.llm = "complex_llm") <=> (score >= last.threshold.t)
           /\ (q.len = 120 /\ "compare" \in q.words /\ last.context = 6
               /\ last.threshold = Float(6))
              => last.result.llm = "complex_llm"

\* the two texts are drawn first, then one of the operators compares them
InitSimilarity ==
    /\ dicts = << >>
    /\ nextOp = 1
    /\ mod = NoMod
    /\ gen = NoGen
    /\ pipe = NoPipe
    /\ added = << >>
    /\ last \in [call : {"texts"}, text1 : SimilarityTexts, text2 : SimilarityTexts]
    /\ threads = NoThreads
    /\ hier = NoHier

NextSimilarity ==
    \/ CallSimpleSimilarity(last.text1, last.text2)
    \/ CallCalculateSimilarity(last.text1, last.text2)

SpecSimilarity == InitSimilarity /\ [][NextSimilarity]_vars

IsSimilarityCall == last.call \in {"simple_similarity", "calculate_similarity"}

\* C24 as stated: the word-set similarity is symmetric, lies in [0, 1], and
\* sim(A, A) = 1.0 for every non-empty text A.
C24_SimilarityOfNonEmptyText ==
    IsSimilarityCall
    => /\ last.result = last.swapped
       /\ 0 <= last.result.num /\ last.result.num <= last.result.den /\ last.result.den > 0
       /\ (last.text1 = last.text2 /\ last.text1 # << >>)
          => last.result.num = last.result.den

\* C24: the word-set similarity is symmetric, lies in [0, 1], and sim(A, A) = 1.0 for
\* every text A that holds at least one word (a character that is not whitespace).
C24_SimilarityOfTextWithWord ==
    IsSimilarityCall
    => /\ last.result = last.swapped
       /\ 0 <= last.result.num /\ last.result.num <= last.result.den /\ last.result.den > 0
       /\ (last.text1 = last.text2 /\ \E i \in 1..Len(last.text1) : ~IsSpace(last.text1[i]))
          => last.result.num = last.result.den

\* two texts that share one of two words, compared by the diversity reranker
C24_Witness ==
    /\ last.call = "simple_similarity"
    /\ last.text1 = << "A", " ", "b" >>
    /\ last.text2 = << "a" >>
    /\ last.result = Quotient(1, 2)
    /\ last.swapped = Quotient(1, 2)

\* C25: after any number of build_hierarchy calls on one strategy, every stored node
\* with parent_id p is listed exactly once in nodes[p].children_ids, and root_nodes
\* names each level-0 node exactly once.
C25_TreeAfterAnyBuilds ==
    hier.exists
    => /\ \A id \in DOMAIN hier.nodes :
            hier.nodes[id].parent_id # NoParent
            => /\ hier.nodes[id].parent_id \in DOMAIN hier.nodes
               /\ Count(hier.nodes[hier.nodes[id].parent_id].children_ids, id) = 1
       /\ \A id \in DOMAIN hier.nodes :
            hier.nodes[id].level = 0 => Count(hier.root_nodes, id) = 1

----------------------------------------------------------------------------
(* RetrievalPipeline: `pipe` holds its stages, RetrievalModules built by     *)
(* add_stage.  A Document is its page_content and its metadata.              *)

\* RetrievalPipeline.add_stage(strategy, config, **build_kwargs); argsOk: the
\* build_kwargs hold what the operator's build_retriever requires
RetrievalPipeline_add_stage(p, strategy, config, argsOk, ds, nid) ==
    LET stage_config == dict_setitem(config, "strategy", StrV(strategy))
        r == Module_new("retrieval", stage_config, ds, nid, FALSE)
        b == Module_build(r.mod, argsOk)
    IN  [raised |-> b.raised,
         pipe |-> IF b.raised THEN p ELSE [p EXCEPT !.steps = Append(@, b.mod)],
         dicts |-> IF b.raised THEN ds ELSE r.dicts]

\* RetrievalModule.retrieve(query): found is what the built retriever gives for the
\* query, fails says that it raises instead
RetrievalModule_retrieve(m, query, found, fails) ==
    IF m.operator.cls \in ScanRetrieveClasses
    THEN IF ~m.operator.documents THEN Ret("list", << >>) ELSE Ret("list", found)
    ELSE IF ~m.operator.retriever THEN Raise("ValueError")
    ELSE IF fails THEN Raise("RetrieverError")
    ELSE Ret("list", found)

\* hash(page_content): Python's string hash maps the unbounded set of strings to
\* 64-bit integers and its key is drawn per process; seed "apart" is a process
\* where the contents used here get three hashes, seed "collide" one where "x" and
\* "z" get the same
hash(page_content, seed) ==
    CASE page_content = "x" -> 11
      [] page_content = "y" -> 12
      [] page_content = "z" -> IF seed = "collide" THEN 11 ELSE 13

\* RetrievalPipeline._deduplicate_documents: the loop from document i on
RECURSIVE deduplicate_from(_, _, _, _, _)
deduplicate_from(documents, seed, i, seen, unique_docs) ==
    IF i > Len(documents) THEN unique_docs
    ELSE LET doc_hash == hash(documents[i].page_content, seed)
         IN  IF doc_hash \notin seen
             THEN deduplicate_from(documents, seed, i + 1, seen \cup {doc_hash},
                                   Append(unique_docs, documents[i]))
             ELSE deduplicate_from(documents, seed, i + 1, seen, unique_docs)

\* RetrievalPipeline._deduplicate_documents
deduplicate_documents(documents, seed) == deduplicate_from(documents, seed, 1, {}, << >>)

\* the loop over the stages of RetrievalPipeline.retrieve from stage i on: all_docs,
\* or the exception of the first stage that raises
RECURSIVE retrieve_stages(_, _, _, _, _)
retrieve_stages(p, query, script, i, all_docs) ==
    IF i > Len(p.steps) THEN Ret("list", all_docs)
    ELSE LET o == RetrievalModule_retrieve(p.steps[i], query, script.found[i],
                                           script.failAt = i)
         IN  IF o.raised THEN o
             ELSE retrieve_stages(p, query, script, i + 1, all_docs \o o.out)

\* RetrievalPipeline.retrieve(query)
RetrievalPipeline_retrieve(p, query, script) ==
    LET o == retrieve_stages(p, query, script, 1, << >>)
    IN  IF o.raised THEN o ELSE Ret("list", deduplicate_documents(o.out, script.seed))

Document(page_content, metadata) == [page_content |-> page_content, metadata |-> metadata]

\* what one stage's retriever may find for the query
FoundLists ==
    { << >>,
      << Document("x", "a"), Document("y", "a"), Document("x", "b") >>,
      << Document("z", "b"), Document("x", "b") >> }

\* one retrieve run: what each stage finds, the stage that raises (0: none), and the
\* hash seed of the process
StageScripts ==
    [found : [1..MaxSteps -> FoundLists], failAt : 0..MaxSteps, seed : {"apart", "collide"}]

\* strategy names passed to add_stage
StageNames == {"dense", "keyword"}

\* pipeline.add_stage(strategy, **build_kwargs)
CallAddStage(strategy, argsOk) ==
    /\ Len(pipe.steps) < MaxSteps
    /\ nextOp <= MaxOps
    /\ LET r == RetrievalPipeline_add_stage(pipe, strategy, EmptyDict, argsOk, dicts, nextOp)
       IN  /\ Len(r.dicts) <= MaxDicts
           /\ dicts' = r.dicts
           /\ nextOp' = IF r.raised THEN nextOp ELSE nextOp + 1
           /\ pipe' = r.pipe
           /\ added' = IF r.raised THEN added ELSE Append(added, strategy)
           /\ last' = [call |-> "add_stage", name |-> strategy, raised |-> r.raised]
    /\ UNCHANGED <<threads, hier, mod, gen>>

\* pipeline.retrieve(query)
CallStagesRetrieve(query, script) ==
    /\ last' = [call |-> "stages_retrieve", query |-> query, script |-> script,
                outcome |-> RetrievalPipeline_retrieve(pipe, query, script)]
    /\ UNCHANGED <<threads, hier, dicts, nextOp, mod, gen, pipe, added>>

InitStages ==
    /\ threads = NoThreads
    /\ hier = NoHier
    /\ dicts = << >>
    /\ nextOp = 1
    /\ mod = NoMod
    /\ gen = NoGen
    /\ pipe = Pipeline_new("retrieval")
    /\ added = << >>
    /\ last = [call |-> "none"]

NextStages ==
    \/ \E n \in StageNames, argsOk \in BOOLEAN : CallAddStage(n, argsOk)
    \/ \E s \in StageScripts : CallStagesRetrieve(<< "q" >>, s)
    \/ CallClear

SpecStages == InitStages /\ [][NextStages]_vars

\* what the stages found for the run, one list after the other
FoundByStages == Flatten([i \in 1..Len(pipe.steps) |-> last.script.found[i]])

\* C26: RetrievalPipeline.retrieve returns the concatenation of the stage results
\* with duplicates removed: no two returned documents have the same page_content,
\* every content found is represented by its first occurrence, in first-occurrence
\* order; with no stages it returns the empty list.
C26_RetrieveDeduplicates ==
    (last.call = "stages_retrieve" /\ ~last.outcome.raised)
    => LET found == FoundByStages
           out == last.outcome.out
           first(i) == \A j \in 1..(i - 1) : found[j].page_content # found[i].page_content
           firsts == SelectSeq([i \in 1..Len(found) |-> i], first)
       IN  /\ \A i, j \in 1..Len(out) : out[i].page_content = out[j].page_content => i = j
           /\ out = [k \in 1..Len(firsts) |-> found[firsts[k]]]
           /\ pipe.steps = << >> => out = << >>

\* C27: on a module whose config has a "strategy" entry, summary() reports the same
\* strategy name in its "strategy" field and in the "strategy" entry of the config it
\* returns, after any sequence of change_strategy calls.
C27_SummaryStrategyMatchesConfig ==
    (last.call = "summary" /\ "strategy" \in DOMAIN last.preDicts[last.summary.config])
    => last.preDicts[last.summary.config]["strategy"] = StrV(last.summary.strategy)

\* C28: RelevanceFilterOperator.process with a non-empty query returns, in input
\* order, every input document whose relevance check answered relevant or failed, and
\* at least min(min_docs, number of input documents) documents.
C28_RelevantDocumentsKept ==
    (last.call = "relevance_filter" /\ ~last.outcome.raised)
    => LET out == last.outcome.out
       IN  /\ \A i \in 1..Len(last.input) :
                last.input[i] \in last.relevant => InSeq(last.input[i], out)
           /\ \A i, j \in 1..Len(out) :
                i < j => PosIn(last.input, out[i]) < PosIn(last.input, out[j])
           /\ Len(out) >= Min(last.min_docs, Len(last.input))

\* C29: for every reply of the chat model and every num_queries >= 0, the list
\* MultiQueryOperator.execute(query) returns contains the original query and has at
\* most num_queries + 1 entries.
C29_OriginalQueryKept ==
    (last.call = "multi_query" /\ ~last.outcome.raised)
    => /\ InSeq(last.query, last.outcome.out)
       /\ Len(last.outcome.out) <= last.num_queries + 1

----------------------------------------------------------------------------
(* ContextCompressionOperator._compress_content, with compression_ratio at   *)
(* its default 0.5; a query of << >> stands for None                         *)

\* the indexes of the sentences kept for scoring, ordered as
\* scored_sentences.sort(key=overlap, reverse=True) orders them: a stable sort
scored_order(sentences, query_words) ==
    LET kept == {i \in 1..Len(sentences) : Strip(sentences[i]) # << >>}
        overlap(i) == Cardinality(query_words \cap word_set(sentences[i]))
        before(j, i) == overlap(j) > overlap(i) \/ (overlap(j) = overlap(i) /\ j < i)
        rank(i) == Cardinality({j \in kept : before(j, i)}) + 1
    IN  [k \in 1..Cardinality(kept) |-> CHOOSE i \in kept : rank(i) = k]

\* the loop that collects sentences until one does not fit
RECURSIVE collect_sentences(_, _, _, _, _)
collect_sentences(sentences, order, k, target_length, compressed) ==
    IF k > Len(order) THEN compressed
    ELSE LET sent == sentences[order[k]]
             current_length == Len(Flatten(compressed))
         IN  IF current_length + Len(sent) <= target_length
             THEN collect_sentences(sentences, order, k + 1, target_length,
                                    Append(compressed, sent))
             ELSE compressed

\* sep.join(parts)
RECURSIVE join(_, _)
join(sep, parts) ==
    IF parts = << >> THEN << >>
    ELSE IF Len(parts) = 1 THEN parts[1]
    ELSE parts[1] \o << sep >> \o join(sep, Tail(parts))

\* ContextCompressionOperator._compress_content
compress_content(content, query, max_tokens) ==
    LET half == Len(content) \div 2
        target_length == IF half > max_tokens THEN half ELSE max_tokens
        sentences == Split(content, FullStop)
        order == scored_order(sentences, word_set(query))
        compressed == collect_sentences(sentences, order, 1, target_length, << >>)
    IN  IF Len(content) <= target_length THEN content
        ELSE IF query # << >>
        THEN IF compressed # << >> THEN join(FullStop, compressed) \o << FullStop >>
             ELSE SubSeq(content, 1, target_length)
        ELSE SubSeq(content, 1, target_length) \o << ".", ".", "." >>

\* the arguments: a content of up to MaxContentLen characters, the query or None, and
\* the max_tokens of the operator's config
CompressionInputs ==
    [call : {"content"},
     content : UNION {[1..n -> {"a", "q", " ", FullStop}] : n \in 0..MaxContentLen},
     query : {<< >>, << "q" >>},
     max_tokens : {1, 2}]

\* ContextCompressionOperator({"max_tokens": m})._compress_content(content, query)
CallCompress ==
    /\ last.call = "content"
    /\ last' = [call |-> "compress", content |-> last.content, query |-> last.query,
                max_tokens |-> last.max_tokens,
                result |-> compress_content(last.content, last.query, last.max_tokens)]
    /\ UNCHANGED <<dicts, nextOp, mod, gen, pipe, added, threads, hier>>

InitCompression ==
    /\ dicts = << >>
    /\ nextOp = 1
    /\ mod = NoMod
    /\ gen = NoGen
    /\ pipe = NoPipe
    /\ added = << >>
    /\ last \in CompressionInputs
    /\ threads = NoThreads
    /\ hier = NoHier

NextCompression == CallCompress

SpecCompression == InitCompression /\ [][NextCompression]_vars

\* C30: the content ContextCompressionOperator returns is never longer than the
\* original content, and when the original is longer than max_tokens characters the
\* returned content has at most max_tokens characters.
C30_CompressedNotLonger ==
    last.call = "compress"
    => /\ Len(last.result) <= Len(last.content)
       /\ Len(last.content) > last.max_tokens => Len(last.result) <= last.max_tokens
====
